---- MODULE Spec2Model ----
(***************************************************************************)
(* Model of the three synchronisation managers of project_1/core:          *)
(*   MutexSyncManager      (mutex_sync.py)      - the balance ledger       *)
(*   SemaphoreSyncManager  (semaphore_sync.py)  - the capacity gate        *)
(*   ConditionSyncManager  (condition_sync.py)  - the rendezvous           *)
(* The managers share no state, and inside a manager the groups of maps    *)
(* are independent, so each group has its own specification (SpecLedger,   *)
(* SpecBoarding, SpecSeats, SpecStops, SpecTransfers, SpecPresence,        *)
(* SpecFlags); the variables of the other groups stay at their initial     *)
(* values.                                                                 *)
(* Money is in half-dollars (3.50$ = 7, 45$ = 90, 1.00$ = 2).              *)
(***************************************************************************)
EXTENDS Integers, Sequences, FiniteSets, TLC

VARIABLES
    \* ---- MutexSyncManager
    card_locks,       \* passenger -> thread holding the card's Lock, 0 when free
    card_balances,    \* passenger -> balance
    lthr,             \* ledger thread -> its position and locals
    ledgerOps,        \* number of ledger calls issued so far
    expected,         \* history: passenger -> initial balance + accepted recharge and
                      \*   refund amounts - amounts of the deductions that returned True
    passes,           \* history: passenger -> number of buy_monthly deductions
    \* ---- MutexSyncManager, boarding at stops
    ledger_stop_locks,    \* stop -> thread holding self.stop_locks[stop], 0 when free
    bus_passenger_list,   \* bus -> list of the passengers aboard
    stop_passenger_list,  \* stop -> list of the passengers waiting
    wthr,             \* boarding thread -> its position and locals
    boardOps,         \* number of board_passengers calls issued so far
    \* ---- SemaphoreSyncManager, bus seats
    bus_capacity_semaphores,  \* bus -> value of its Semaphore
    sthr,             \* passenger thread -> its position and locals
    seatOps,          \* number of board/alight calls issued so far
    seat,             \* history: passenger thread -> bus it holds a seat in, or NoBus
    alights,          \* history: bus -> alight_passenger calls by seat holders
    strayAlights,     \* history: bus -> alight_passenger calls by non-holders
    \* ---- SemaphoreSyncManager, stops
    stop_semaphores,  \* stop -> value of its Semaphore
    stop_queues,      \* stop -> list of queued bus ids
    stop_locks,       \* stop -> thread holding the queue's Lock, 0 when free
    bthr,             \* bus thread -> its position and locals
    stopOps,          \* number of arrive/depart calls issued so far
    tickets,          \* history: stop -> enqueue numbers, parallel to stop_queues
    enqueued,         \* history: stop -> number of entries appended so far
    admitLog,         \* history: stop -> admissions in order, each <<enqueue number
                      \*   of the popped entry, bus of that entry, bus admitted>>
    departs,          \* history: stop -> bus_depart_from_stop calls that released
    strayDeparts,     \* history: stop -> departures by buses not admitted there
    timedOut,         \* history: stop -> number of arrivals that timed out
    \* ---- SemaphoreSyncManager, life cycle
    gate_threads,     \* self.threads: "unset" while the attribute does not exist
    gate_stop_signal, \* self.stop_signal: "unset" while the attribute does not exist
    cleanup_outcome,  \* history: "none", or how the last cleanup() ended
    setup,            \* a manager under construction: its seed, its maps and the
                      \*   position and result of its initialize()
    \* ---- ConditionSyncManager, transfers
    transfer_lock,    \* thread holding the lock of transfer_condition, 0 when free
    transfers_in_progress,  \* passenger -> <<from_bus, to_bus>>, pending ones only
    stop_signal,      \* the stop signal of the manager
    xthr,             \* transfer thread -> its position and locals
    xferOps,          \* number of transfer calls issued so far
    opened,           \* history: passenger -> start_transfer calls that returned
                      \*   True minus complete_transfer calls that returned True
    \* ---- ConditionSyncManager, stop monitors
    stop_cond_locks,  \* stop -> thread holding the lock of stop_conditions[stop]
    bus_at_stop,      \* stop -> set of the buses present
    pthr,             \* stop-monitor thread -> its position and locals
    presOps,          \* number of stop-monitor calls issued so far
    arrivals,         \* history: stop -> some notify_bus_arrival has added a bus
    \* ---- ConditionSyncManager, bus monitors
    bus_cond_locks,   \* bus -> thread holding the lock of bus_conditions[bus]
    boarding_complete,   \* bus -> flag
    alighting_complete,  \* bus -> flag
    fthr,             \* bus-monitor thread -> its position and locals
    flagOps,          \* number of bus-monitor calls issued so far
    boarding_started,    \* history: bus -> a start_boarding returned True and no
                         \*   complete_boarding has followed it
    alighting_started    \* history: the same for start_alighting / complete_alighting

ledgerVars == <<card_locks, card_balances, lthr, ledgerOps, expected, passes>>

boardVars == <<ledger_stop_locks, bus_passenger_list, stop_passenger_list, wthr,
               boardOps>>

seatVars == <<bus_capacity_semaphores, sthr, seatOps, seat, alights, strayAlights>>

stopVars == <<stop_semaphores, stop_queues, stop_locks, bthr, stopOps, tickets,
              enqueued, admitLog, departs, strayDeparts, timedOut>>

xferVars == <<transfer_lock, transfers_in_progress, stop_signal, xthr, xferOps,
              opened>>

presVars == <<stop_cond_locks, bus_at_stop, pthr, presOps, arrivals>>

flagVars == <<bus_cond_locks, boarding_complete, alighting_complete, fthr, flagOps,
              boarding_started, alighting_started>>

lifeVars == <<gate_threads, gate_stop_signal, cleanup_outcome, setup>>

vars == <<ledgerVars, boardVars, seatVars, stopVars, lifeVars, xferVars, presVars,
         flagVars>>

\* what the operations of one group leave alone: the other groups
notLedger == <<seatVars, stopVars, xferVars, presVars, flagVars,
               boardVars, lifeVars>>
notSeats == <<ledgerVars, stopVars, xferVars, presVars, flagVars,
              boardVars, lifeVars>>
notStops == <<ledgerVars, seatVars, xferVars, presVars, flagVars,
              boardVars, lifeVars>>
notTransfers == <<ledgerVars, seatVars, stopVars, presVars, flagVars,
                  boardVars, lifeVars>>
notPresence == <<ledgerVars, seatVars, stopVars, xferVars, flagVars,
                 boardVars, lifeVars>>
\* what board_passengers leaves alone besides the ledger's variables
notBoarding == <<seatVars, stopVars, xferVars, presVars, flagVars, lifeVars>>
\* what run_scenarios and cleanup of the gate leave alone besides its maps
notLife == <<ledgerVars, boardVars, xferVars, presVars, flagVars>>
notFlags == <<ledgerVars, seatVars, stopVars, xferVars, presVars,
              boardVars, lifeVars>>

NoThread == 0

(***************************************************************************)
(*                         MutexSyncManager                                *)
(***************************************************************************)
Fare == 7
MonthlyPrice == 90

MaxLedgerOps == 3

LedgerThreads == {1, 2}
KnownPassengers == {1, 2, 3, 4}
\* the accounts the ledger calls are issued for, and an unknown one
PassengerIds == {1, 2, 9}
Amounts == {-2, 0, 2}
PayAmounts == {Fare, 2}
LedgerOpNames == {"pay_fare", "recharge_card", "refund", "buy_monthly"}

ArgAmounts(op) ==
    IF op = "pay_fare" THEN PayAmounts
    ELSE IF op = "buy_monthly" THEN {MonthlyPrice}
    ELSE Amounts

\* mutant of unknown_key: every identifier passes for a known one
unknown_key_never(id, keys) == FALSE

\* the entry test of the operations: "if stop not in self.stop_locks" and the like
unknown_key(id, keys) == id \notin keys

LIdle == [pc |-> "idle", op |-> "none", pid |-> 0, amount |-> 0, seen |-> 0,
          result |-> FALSE]

\* mutant of lock_acquire_ok: the lock excludes nobody
lock_acquire_unguarded(holder) == TRUE

\* threading.Lock: acquire succeeds only on a free lock
lock_acquire_ok(holder) == holder = NoThread

\* mutant of pay_fare_ok: a balance equal to the fare is refused
pay_fare_strict(balance, amount) == balance > amount

\* the sufficient-funds test of pay_fare
pay_fare_ok(balance, amount) == balance >= amount

\* mutant of amount_rejected: a zero amount is let through
amount_rejected_negative(amount) == amount < 0

\* the amount validation of recharge_card and refund
amount_rejected(amount) == amount <= 0

\* mutant of new_balance: buy_monthly refuses to overdraw the account
new_balance_guarded(op, seen, amount) ==
    IF op = "buy_monthly"
      THEN (IF seen >= amount THEN seen - amount ELSE seen)
    ELSE IF op = "pay_fare" THEN seen - amount
    ELSE seen + amount

\* mutant of new_balance: the amount is taken twice
new_balance_twice(op, seen, amount) ==
    IF op \in {"pay_fare", "buy_monthly"} THEN seen - 2 * amount ELSE seen + amount

\* the value each operation writes back to card_balances[passenger]
new_balance(op, seen, amount) ==
    IF op \in {"pay_fare", "buy_monthly"} THEN seen - amount ELSE seen + amount

\* entry of pay_fare / recharge_card / refund / buy_monthly: the checks made
\* before the lock is taken
LedgerCall(t) ==
    /\ lthr[t].pc = "idle"
    /\ ledgerOps < MaxLedgerOps
    /\ \E op \in LedgerOpNames, p \in PassengerIds :
         \E a \in ArgAmounts(op) :
            LET call == [LIdle EXCEPT !.op = op, !.pid = p, !.amount = a] IN
            lthr' = [lthr EXCEPT ![t] =
                       IF p \notin DOMAIN card_locks
                         THEN [call EXCEPT !.pc = "ret", !.result = FALSE]
                       ELSE IF op \in {"recharge_card", "refund"} /\ amount_rejected(a)
                         THEN [call EXCEPT !.pc = "ret", !.result = FALSE]
                       ELSE [call EXCEPT !.pc = "lock"]]
    /\ ledgerOps' = ledgerOps + 1
    /\ UNCHANGED <<card_locks, card_balances, expected, passes>>
    /\ UNCHANGED notLedger

\* with self.card_locks[passenger_id]:
LedgerAcquire(t) ==
    /\ lthr[t].pc = "lock"
    /\ lock_acquire_ok(card_locks[lthr[t].pid])
    /\ card_locks' = [card_locks EXCEPT ![lthr[t].pid] = t]
    /\ lthr' = [lthr EXCEPT ![t].pc = "check"]
    /\ UNCHANGED <<card_balances, ledgerOps, expected, passes>>
    /\ UNCHANGED notLedger

\* the read of the balance (and, in pay_fare, its comparison with the amount)
LedgerCheck(t) ==
    /\ lthr[t].pc = "check"
    /\ LET bal == card_balances[lthr[t].pid] IN
       lthr' = [lthr EXCEPT ![t] =
                  IF lthr[t].op = "pay_fare" /\ ~pay_fare_ok(bal, lthr[t].amount)
                    THEN [@ EXCEPT !.seen = bal, !.result = FALSE, !.pc = "unlock"]
                    ELSE [@ EXCEPT !.seen = bal, !.pc = "write"]]
    /\ UNCHANGED <<card_locks, card_balances, ledgerOps, expected, passes>>
    /\ UNCHANGED notLedger

\* the write of the new balance; success = True
LedgerWrite(t) ==
    /\ lthr[t].pc = "write"
    /\ LET p == lthr[t].pid
           op == lthr[t].op
           a == lthr[t].amount
       IN /\ card_balances' =
                [card_balances EXCEPT ![p] = new_balance(op, lthr[t].seen, a)]
          /\ expected' = [expected EXCEPT ![p] =
                            IF op \in {"recharge_card", "refund"} THEN @ + a ELSE @ - a]
          /\ passes' = [passes EXCEPT ![p] = IF op = "buy_monthly" THEN @ + 1 ELSE @]
    /\ lthr' = [lthr EXCEPT ![t].result = TRUE, ![t].pc = "unlock"]
    /\ UNCHANGED <<card_locks, ledgerOps>>
    /\ UNCHANGED notLedger

\* leaving the with block and returning success
LedgerRelease(t) ==
    /\ lthr[t].pc = "unlock"
    /\ card_locks' = [card_locks EXCEPT ![lthr[t].pid] = NoThread]
    /\ lthr' = [lthr EXCEPT ![t] = LIdle]
    /\ UNCHANGED <<card_balances, ledgerOps, expected, passes>>
    /\ UNCHANGED notLedger

\* the early "return False" taken before any lock
LedgerReturn(t) ==
    /\ lthr[t].pc = "ret"
    /\ lthr' = [lthr EXCEPT ![t] = LIdle]
    /\ UNCHANGED <<card_locks, card_balances, ledgerOps, expected, passes>>
    /\ UNCHANGED notLedger

(***************************************************************************)
(*               MutexSyncManager: board_passengers                        *)
(***************************************************************************)
MaxBoardOps == 3

RideCapacity == 2
StopCapacity == 3
LedgerStops == {1, 2}
LedgerStopIds == LedgerStops \cup {9}
TheBus == 1
Workers == {1, 2}
\* who waits where at the start: passenger 1 cannot afford the fare
WaitingAt(s) == IF s = 1 THEN <<1, 3>> ELSE <<2, 4>>

WIdle == [pc |-> "idle", op |-> "none", stop |-> 0, todo |-> <<>>, cur |-> 0,
          paid |-> FALSE, boarded |-> FALSE, removed |-> FALSE, raised |-> FALSE,
          result |-> FALSE, snapshot |-> <<>>, moved |-> {}, rejected |-> FALSE,
          charges |-> <<>>]

\* the name under which boarding thread t holds a card's lock, apart from
\* the names of the ledger threads
WorkerOwner(t) == Cardinality(LedgerThreads) + t

\* mutant of can_accept_passengers: one free seat is enough
can_accept_passengers_partly(count, n, capacity) == count < capacity

\* Bus.can_accept_passengers(n): current count + n <= capacity
can_accept_passengers(count, n, capacity) == count + n <= capacity

\* Stop.can_accept_passengers(n): current count + n <= capacity
stop_can_accept_passengers(count, n, capacity) == count + n <= capacity

\* passenger in list
list_has(list, x) == \E i \in 1..Len(list) : list[i] = x

\* mutant of list_remove: the passenger stays in the list
list_remove_none(list, x) == list

\* stop.passenger_list.remove(passenger): the first occurrence goes
list_remove(list, x) ==
    IF \E i \in 1..Len(list) : list[i] = x
      THEN LET i == CHOOSE j \in 1..Len(list) :
                      list[j] = x /\ \A k \in 1..(j - 1) : list[k] /= x
           IN [k \in 1..(Len(list) - 1) |-> IF k < i THEN list[k] ELSE list[k + 1]]
      ELSE list

\* board_passengers up to the lock: the stop must be known
BoardPassengersCall(t) ==
    /\ wthr[t].pc = "idle"
    /\ boardOps < MaxBoardOps
    /\ boardOps' = boardOps + 1
    /\ \E s \in LedgerStopIds :
         wthr' = [wthr EXCEPT ![t] =
                    [WIdle EXCEPT !.op = "board_passengers", !.stop = s,
                                  !.pc = IF unknown_key(s, DOMAIN ledger_stop_locks)
                                           THEN "ret" ELSE "lock"]]
    /\ UNCHANGED <<ledger_stop_locks, bus_passenger_list, stop_passenger_list>>
    /\ UNCHANGED <<ledgerVars, notBoarding>>

\* alight_passengers up to the lock: the stop must be known
AlightPassengersCall(t) ==
    /\ wthr[t].pc = "idle"
    /\ boardOps < MaxBoardOps
    /\ boardOps' = boardOps + 1
    /\ \E s \in LedgerStopIds :
         wthr' = [wthr EXCEPT ![t] =
                    [WIdle EXCEPT !.op = "alight_passengers", !.stop = s,
                                  !.pc = IF unknown_key(s, DOMAIN ledger_stop_locks)
                                           THEN "ret" ELSE "lock"]]
    /\ UNCHANGED <<ledger_stop_locks, bus_passenger_list, stop_passenger_list>>
    /\ UNCHANGED <<ledgerVars, notBoarding>>

\* with self.stop_locks[stop]:
BoardPassengersAcquire(t) ==
    /\ wthr[t].pc = "lock"
    /\ lock_acquire_ok(ledger_stop_locks[wthr[t].stop])
    /\ ledger_stop_locks' = [ledger_stop_locks EXCEPT ![wthr[t].stop] = t]
    /\ wthr' = [wthr EXCEPT ![t].pc = "check"]
    /\ UNCHANGED <<bus_passenger_list, stop_passenger_list, boardOps>>
    /\ UNCHANGED <<ledgerVars, notBoarding>>

\* the capacity test on the whole waiting list, then the copy of the list
BoardPassengersCheck(t) ==
    /\ wthr[t].pc = "check"
    /\ wthr[t].op = "board_passengers"
    /\ LET waiting == stop_passenger_list[wthr[t].stop] IN
       wthr' = [wthr EXCEPT ![t] =
                  IF can_accept_passengers(Len(bus_passenger_list[TheBus]),
                                           Len(waiting), RideCapacity)
                    THEN [@ EXCEPT !.todo = waiting, !.snapshot = waiting,
                                   !.pc = "pay"]
                    ELSE [@ EXCEPT !.rejected = TRUE, !.result = FALSE,
                                   !.pc = "unlock"]]
    /\ UNCHANGED <<ledger_stop_locks, bus_passenger_list, stop_passenger_list,
                   boardOps>>
    /\ UNCHANGED <<ledgerVars, notBoarding>>

\* one turn of the for loop: the call self.pay_fare(passenger.id) up to the
\* card's lock, False at once for an unknown card; after the last
\* passenger, return boarded
BoardPassengersPay(t) ==
    /\ wthr[t].pc = "pay"
    /\ wthr' = [wthr EXCEPT ![t] =
                  IF wthr[t].todo = <<>>
                    THEN [@ EXCEPT !.result = wthr[t].boarded, !.pc = "unlock"]
                  ELSE IF unknown_key(Head(wthr[t].todo), DOMAIN card_locks)
                    THEN [@ EXCEPT !.todo = Tail(@)]
                  ELSE [@ EXCEPT !.cur = Head(wthr[t].todo), !.pc = "card"]]
    /\ UNCHANGED <<ledger_stop_locks, bus_passenger_list, stop_passenger_list,
                   boardOps>>
    /\ UNCHANGED <<ledgerVars, notBoarding>>

\* pay_fare inside board_passengers: with self.card_locks[passenger_id], the
\* balance test and the deduction
BoardPassengersCard(t) ==
    /\ wthr[t].pc = "card"
    /\ LET p == wthr[t].cur IN
       /\ lock_acquire_ok(card_locks[p])
       /\ card_locks' = [card_locks EXCEPT ![p] = WorkerOwner(t)]
       /\ IF pay_fare_ok(card_balances[p], Fare)
            THEN /\ card_balances' =
                       [card_balances EXCEPT ![p] = new_balance("pay_fare", @, Fare)]
                 /\ expected' = [expected EXCEPT ![p] = @ - Fare]
                 /\ wthr' = [wthr EXCEPT ![t].paid = TRUE, ![t].pc = "carddone",
                                         ![t].charges = Append(@, p)]
            ELSE /\ wthr' = [wthr EXCEPT ![t].paid = FALSE, ![t].pc = "carddone"]
                 /\ UNCHANGED <<card_balances, expected>>
    /\ UNCHANGED <<ledger_stop_locks, bus_passenger_list, stop_passenger_list,
                   boardOps, lthr, ledgerOps, passes>>
    /\ UNCHANGED notBoarding

\* mutant of BoardPassengersCardRelease: pay_fare returns with the card lock
\* still held
BoardPassengersCardKeep(t) ==
    /\ wthr[t].pc = "carddone"
    /\ wthr' = [wthr EXCEPT ![t].todo = Tail(@),
                            ![t].pc = IF wthr[t].paid THEN "move" ELSE "pay"]
    /\ UNCHANGED <<ledger_stop_locks, bus_passenger_list, stop_passenger_list,
                   boardOps, ledgerVars>>
    /\ UNCHANGED notBoarding

\* pay_fare leaves its with block and returns to the loop
BoardPassengersCardRelease(t) ==
    /\ wthr[t].pc = "carddone"
    /\ card_locks' = [card_locks EXCEPT ![wthr[t].cur] = NoThread]
    /\ wthr' = [wthr EXCEPT ![t].todo = Tail(@),
                            ![t].pc = IF wthr[t].paid THEN "move" ELSE "pay"]
    /\ UNCHANGED <<ledger_stop_locks, bus_passenger_list, stop_passenger_list,
                   boardOps, card_balances, expected, lthr, ledgerOps, passes>>
    /\ UNCHANGED notBoarding

\* bus.passenger_list.append(passenger); stop.passenger_list.remove(passenger)
BoardPassengersMove(t) ==
    /\ wthr[t].pc = "move"
    /\ bus_passenger_list' =
          [bus_passenger_list EXCEPT ![TheBus] = Append(@, wthr[t].cur)]
    /\ stop_passenger_list' =
          [stop_passenger_list EXCEPT ![wthr[t].stop] = list_remove(@, wthr[t].cur)]
    /\ wthr' = [wthr EXCEPT ![t].boarded = TRUE,
                            ![t].moved = @ \cup {wthr[t].cur},
                            ![t].pc = "pay"]
    /\ UNCHANGED <<ledger_stop_locks, boardOps>>
    /\ UNCHANGED <<ledgerVars, notBoarding>>

\* the test that the stop has room for everybody aboard, then the copy of
\* the bus's list
AlightPassengersCheck(t) ==
    /\ wthr[t].pc = "check"
    /\ wthr[t].op = "alight_passengers"
    /\ LET aboard == bus_passenger_list[TheBus] IN
       wthr' = [wthr EXCEPT ![t] =
                  IF stop_can_accept_passengers(
                         Len(stop_passenger_list[wthr[t].stop]), Len(aboard),
                         StopCapacity)
                    THEN [@ EXCEPT !.todo = aboard, !.snapshot = aboard,
                                   !.pc = "leave"]
                    ELSE [@ EXCEPT !.rejected = TRUE, !.result = FALSE,
                                   !.pc = "unlock"]]
    /\ UNCHANGED <<ledger_stop_locks, bus_passenger_list, stop_passenger_list,
                   boardOps>>
    /\ UNCHANGED <<ledgerVars, notBoarding>>

\* one turn of the for loop of alight_passengers:
\* bus.passenger_list.remove(passenger), which raises ValueError when the
\* passenger has left the list meanwhile, then stop.passenger_list.append;
\* after the last passenger, return removed
AlightPassengersMove(t) ==
    /\ wthr[t].pc = "leave"
    /\ IF wthr[t].todo = <<>>
         THEN /\ wthr' = [wthr EXCEPT ![t].result = wthr[t].removed,
                                      ![t].pc = "unlock"]
              /\ UNCHANGED <<bus_passenger_list, stop_passenger_list>>
         ELSE LET p == Head(wthr[t].todo) IN
              IF list_has(bus_passenger_list[TheBus], p)
                THEN /\ bus_passenger_list' =
                           [bus_passenger_list EXCEPT ![TheBus] = list_remove(@, p)]
                     /\ stop_passenger_list' =
                           [stop_passenger_list EXCEPT ![wthr[t].stop] = Append(@, p)]
                     /\ wthr' = [wthr EXCEPT ![t].todo = Tail(@),
                                             ![t].moved = @ \cup {p},
                                             ![t].removed = TRUE]
                ELSE /\ wthr' = [wthr EXCEPT ![t].raised = TRUE,
                                             ![t].pc = "unlock"]
                     /\ UNCHANGED <<bus_passenger_list, stop_passenger_list>>
    /\ UNCHANGED <<ledger_stop_locks, boardOps>>
    /\ UNCHANGED <<ledgerVars, notBoarding>>

\* leaving the with block and returning
BoardPassengersRelease(t) ==
    /\ wthr[t].pc = "unlock"
    /\ ledger_stop_locks' = [ledger_stop_locks EXCEPT ![wthr[t].stop] = NoThread]
    /\ wthr' = [wthr EXCEPT ![t] = WIdle]
    /\ UNCHANGED <<bus_passenger_list, stop_passenger_list, boardOps>>
    /\ UNCHANGED <<ledgerVars, notBoarding>>

\* the early "return False" for an unknown stop
BoardPassengersReturn(t) ==
    /\ wthr[t].pc = "ret"
    /\ wthr' = [wthr EXCEPT ![t] = WIdle]
    /\ UNCHANGED <<ledger_stop_locks, bus_passenger_list, stop_passenger_list,
                   boardOps>>
    /\ UNCHANGED <<ledgerVars, notBoarding>>

(***************************************************************************)
(*                 SemaphoreSyncManager: bus seats                         *)
(***************************************************************************)
BusCapacity == 2
MaxSeatOps == 5

KnownBuses == {1, 2}
GateBusIds == KnownBuses \cup {9}
NoBus == 0
SeatThreads == 1 .. (BusCapacity + 1)

SIdle == [pc |-> "idle", op |-> "none", bus |-> NoBus, result |-> FALSE,
          heldAtFail |-> 0]

\* mutant of sem_acquire_ok: a permit is handed out at value 0 too
sem_acquire_at_zero(value) == value >= 0

\* threading.Semaphore.acquire takes a permit only when the value is positive
sem_acquire_ok(value) == value > 0

\* mutant of sem_take: acquiring leaves the value as it was
sem_take_nothing(value) == value

\* threading.Semaphore.acquire: the permit taken
sem_take(value) == value - 1

\* threading.Semaphore.acquire(timeout=...) gives up only while the value is 0
sem_timeout_ok(value) == value = 0

\* mutant of sem_release: a release above the initial value is dropped
sem_release_bounded(value) == IF value < BusCapacity THEN value + 1 ELSE value

\* threading.Semaphore.release
sem_release(value) == value + 1

\* number of passengers holding a seat of bus b
Holders(b) == Cardinality({t \in SeatThreads : seat[t] = b})

\* board_passenger up to the acquire: the bus must be known
BoardCall(t) ==
    /\ sthr[t].pc = "idle"
    /\ seat[t] = NoBus
    /\ seatOps < MaxSeatOps
    /\ \E b \in GateBusIds :
         sthr' = [sthr EXCEPT ![t] =
                    IF b \notin DOMAIN bus_capacity_semaphores
                      THEN [SIdle EXCEPT !.op = "board", !.bus = b, !.pc = "ret"]
                      ELSE [SIdle EXCEPT !.op = "board", !.bus = b, !.pc = "acquire"]]
    /\ seatOps' = seatOps + 1
    /\ UNCHANGED <<bus_capacity_semaphores, seat, alights, strayAlights>>
    /\ UNCHANGED notSeats

\* acquire(timeout=timeout) returned True: a seat is reserved
BoardAcquire(t) ==
    /\ sthr[t].pc = "acquire"
    /\ sem_acquire_ok(bus_capacity_semaphores[sthr[t].bus])
    /\ bus_capacity_semaphores' =
          [bus_capacity_semaphores EXCEPT ![sthr[t].bus] = sem_take(@)]
    /\ seat' = [seat EXCEPT ![t] = sthr[t].bus]
    /\ sthr' = [sthr EXCEPT ![t].pc = "ret", ![t].result = TRUE]
    /\ UNCHANGED <<seatOps, alights, strayAlights>>
    /\ UNCHANGED notSeats

\* acquire(timeout=timeout) returned False: the timeout expired with no permit
BoardTimeout(t) ==
    /\ sthr[t].pc = "acquire"
    /\ sem_timeout_ok(bus_capacity_semaphores[sthr[t].bus])
    /\ sthr' = [sthr EXCEPT ![t].pc = "ret", ![t].result = FALSE,
                            ![t].heldAtFail = Holders(sthr[t].bus)]
    /\ UNCHANGED <<bus_capacity_semaphores, seatOps, seat, alights, strayAlights>>
    /\ UNCHANGED notSeats

\* alight_passenger: release the bus' semaphore, whoever calls
AlightCall(t) ==
    /\ sthr[t].pc = "idle"
    /\ seatOps < MaxSeatOps
    /\ seatOps' = seatOps + 1
    /\ \E b \in GateBusIds :
         IF b \notin DOMAIN bus_capacity_semaphores
           THEN /\ sthr' = [sthr EXCEPT ![t] =
                              [SIdle EXCEPT !.op = "alight", !.bus = b, !.pc = "ret"]]
                /\ UNCHANGED <<bus_capacity_semaphores, seat, alights, strayAlights>>
           ELSE /\ bus_capacity_semaphores' =
                      [bus_capacity_semaphores EXCEPT ![b] = sem_release(@)]
                /\ sthr' = [sthr EXCEPT ![t] =
                              [SIdle EXCEPT !.op = "alight", !.bus = b, !.pc = "ret",
                                            !.result = TRUE]]
                /\ IF seat[t] = b
                     THEN /\ seat' = [seat EXCEPT ![t] = NoBus]
                          /\ alights' = [alights EXCEPT ![b] = @ + 1]
                          /\ UNCHANGED strayAlights
                     ELSE /\ strayAlights' = [strayAlights EXCEPT ![b] = @ + 1]
                          /\ UNCHANGED <<seat, alights>>
    /\ UNCHANGED notSeats

\* the call returns to its caller
SeatReturn(t) ==
    /\ sthr[t].pc = "ret"
    /\ sthr' = [sthr EXCEPT ![t] = SIdle]
    /\ UNCHANGED <<bus_capacity_semaphores, seatOps, seat, alights, strayAlights>>
    /\ UNCHANGED notSeats


(***************************************************************************)
(*                 SemaphoreSyncManager: stops                             *)
(***************************************************************************)
StopLimit == 2
MaxStopOps == 4

KnownStops == {1, 2}
GateStopIds == KnownStops \cup {9}
ArrivingBuses == {1, 2, 3}
\* the buses a thread drives: three distinct buses, and bus 1 driven twice
BusesOf(t) == IF t = 3 THEN {1, 3} ELSE {t}
NoStop == 0
BusThreads == {1, 2, 3}

\* queuedBefore records how often the bus was queued when a timed-out call
\* came to remove it
BIdle == [pc |-> "idle", op |-> "none", bus |-> NoBus, stop |-> NoStop,
          result |-> FALSE, queuedBefore |-> 0]

\* mutant of queue_append: the arriving bus jumps the queue
queue_prepend(q, x) == <<x>> \o q

\* list.append
queue_append(q, x) == Append(q, x)

\* index of the first occurrence of x in q, 0 when absent
IndexOf(q, x) ==
    IF \E i \in 1 .. Len(q) : q[i] = x
      THEN CHOOSE i \in 1 .. Len(q) : q[i] = x /\ \A j \in 1 .. (i - 1) : q[j] /= x
      ELSE 0

\* q without its i-th element (q itself when i = 0)
RemoveAt(q, i) ==
    IF i = 0 THEN q ELSE [k \in 1 .. (Len(q) - 1) |-> IF k < i THEN q[k] ELSE q[k + 1]]

\* occurrences of bus b in a queue
Occurrences(q, b) == Cardinality({i \in 1 .. Len(q) : q[i] = b})

\* mutant of queue_remove: every occurrence of the bus goes
queue_remove_all(q, x) == SelectSeq(q, LAMBDA y : y /= x)

\* mutant of queue_remove: the bus stays queued
queue_remove_none(q, x) == q

\* if bus_id in queue: queue.remove(bus_id)
queue_remove(q, x) == RemoveAt(q, IndexOf(q, x))

\* mutant of is_head: any queued bus may try to take a slot
is_queued(q, x) == IndexOf(q, x) /= 0

\* not (not queue or queue[0] != bus_id)
is_head(q, x) == q /= <<>> /\ q[1] = x

\* mutant of stop_slots: one slot too many
stop_slots_three == StopLimit + 1

\* threading.Semaphore(2)
stop_slots == StopLimit

\* buses admitted at stop s (bus_arrive_at_stop returned True) and not departed
Hosted(s) == Cardinality({t \in BusThreads : bthr[t].pc = "docked" /\ bthr[t].stop = s})

\* arrivals holding a slot of s whose call has not returned yet
Admitting(s) == Cardinality({t \in BusThreads : bthr[t].pc = "pop" /\ bthr[t].stop = s})

\* bus_arrive_at_stop up to the first lock: the stop must be known
ArriveCall(t) ==
    /\ bthr[t].pc = "idle"
    /\ stopOps < MaxStopOps
    /\ \E b \in BusesOf(t), s \in GateStopIds :
         bthr' = [bthr EXCEPT ![t] =
                    IF s \notin DOMAIN stop_semaphores
                      THEN [BIdle EXCEPT !.op = "arrive", !.bus = b, !.stop = s,
                                         !.pc = "ret"]
                      ELSE [BIdle EXCEPT !.op = "arrive", !.bus = b, !.stop = s,
                                         !.pc = "enq"]]
    /\ stopOps' = stopOps + 1
    /\ UNCHANGED <<stop_semaphores, stop_queues, stop_locks, tickets, enqueued,
                   admitLog, departs, strayDeparts, timedOut>>
    /\ UNCHANGED notStops

\* with self.stop_locks[stop_id]: self.stop_queues[stop_id].append(bus_id)
ArriveEnqueue(t) ==
    /\ bthr[t].pc = "enq"
    /\ LET s == bthr[t].stop IN
       /\ lock_acquire_ok(stop_locks[s])
       /\ stop_queues' = [stop_queues EXCEPT ![s] = queue_append(@, bthr[t].bus)]
       /\ tickets' = [tickets EXCEPT ![s] = queue_append(@, enqueued[s] + 1)]
       /\ enqueued' = [enqueued EXCEPT ![s] = @ + 1]
    /\ bthr' = [bthr EXCEPT ![t].pc = "poll"]
    /\ UNCHANGED <<stop_semaphores, stop_locks, stopOps, admitLog, departs,
                   strayDeparts, timedOut>>
    /\ UNCHANGED notStops

\* one turn of the polling loop: with self.stop_locks[stop_id]:
ArriveLock(t) ==
    /\ bthr[t].pc = "poll"
    /\ lock_acquire_ok(stop_locks[bthr[t].stop])
    /\ stop_locks' = [stop_locks EXCEPT ![bthr[t].stop] = t]
    /\ bthr' = [bthr EXCEPT ![t].pc = "head"]
    /\ UNCHANGED <<stop_semaphores, stop_queues, stopOps, tickets, enqueued, admitLog,
                   departs, strayDeparts, timedOut>>
    /\ UNCHANGED notStops

\* under the lock: the head test, then acquire(blocking=False)
ArriveHead(t) ==
    /\ bthr[t].pc = "head"
    /\ LET s == bthr[t].stop IN
       IF is_head(stop_queues[s], bthr[t].bus) /\ sem_acquire_ok(stop_semaphores[s])
         THEN /\ stop_semaphores' = [stop_semaphores EXCEPT ![s] = sem_take(@)]
              /\ bthr' = [bthr EXCEPT ![t].pc = "pop"]
              /\ UNCHANGED stop_locks
         ELSE /\ stop_locks' = [stop_locks EXCEPT ![s] = NoThread]
              /\ bthr' = [bthr EXCEPT ![t].pc = "poll"]
              /\ UNCHANGED stop_semaphores
    /\ UNCHANGED <<stop_queues, stopOps, tickets, enqueued, admitLog, departs,
                   strayDeparts, timedOut>>
    /\ UNCHANGED notStops

\* self.stop_queues[stop_id].pop(0); return True (leaving the with block)
ArrivePop(t) ==
    /\ bthr[t].pc = "pop"
    /\ LET s == bthr[t].stop IN
       /\ stop_queues[s] /= <<>>
       /\ stop_queues' = [stop_queues EXCEPT ![s] = Tail(@)]
       /\ tickets' = [tickets EXCEPT ![s] = Tail(@)]
       /\ admitLog' = [admitLog EXCEPT ![s] =
                          Append(@, <<Head(tickets[s]), Head(stop_queues[s]), bthr[t].bus>>)]
       /\ stop_locks' = [stop_locks EXCEPT ![s] = NoThread]
    /\ bthr' = [bthr EXCEPT ![t].pc = "docked", ![t].result = TRUE]
    /\ UNCHANGED <<stop_semaphores, stopOps, enqueued, departs, strayDeparts, timedOut>>
    /\ UNCHANGED notStops

\* the loop condition time.time() < end_time fails
ArriveTimeout(t) ==
    /\ bthr[t].pc = "poll"
    /\ bthr' = [bthr EXCEPT ![t].pc = "rm"]
    /\ timedOut' = [timedOut EXCEPT ![bthr[t].stop] = @ + 1]
    /\ UNCHANGED <<stop_semaphores, stop_queues, stop_locks, stopOps, tickets,
                   enqueued, admitLog, departs, strayDeparts>>
    /\ UNCHANGED notStops

\* with self.stop_locks[stop_id]: remove the bus from the queue; return False
ArriveRemove(t) ==
    /\ bthr[t].pc = "rm"
    /\ LET s == bthr[t].stop
           i == IndexOf(stop_queues[s], bthr[t].bus)
       IN /\ lock_acquire_ok(stop_locks[s])
          /\ stop_queues' = [stop_queues EXCEPT ![s] = queue_remove(@, bthr[t].bus)]
          /\ tickets' = [tickets EXCEPT ![s] = RemoveAt(@, i)]
    /\ bthr' = [bthr EXCEPT ![t].pc = "ret", ![t].result = FALSE,
                            ![t].queuedBefore =
                                Occurrences(stop_queues[bthr[t].stop], bthr[t].bus)]
    /\ UNCHANGED <<stop_semaphores, stop_locks, stopOps, enqueued, admitLog, departs,
                   strayDeparts, timedOut>>
    /\ UNCHANGED notStops

\* bus_depart_from_stop by the bus this thread docked at the stop
DepartCall(t) ==
    /\ bthr[t].pc = "docked"
    /\ stopOps < MaxStopOps
    /\ LET s == bthr[t].stop IN
       /\ stop_semaphores' = [stop_semaphores EXCEPT ![s] = sem_release(@)]
       /\ departs' = [departs EXCEPT ![s] = @ + 1]
    /\ bthr' = [bthr EXCEPT ![t].pc = "ret", ![t].op = "depart", ![t].result = TRUE]
    /\ stopOps' = stopOps + 1
    /\ UNCHANGED <<stop_queues, stop_locks, tickets, enqueued, admitLog, strayDeparts,
                   timedOut>>
    /\ UNCHANGED notStops

\* bus_depart_from_stop for a bus this thread never docked at the stop
StrayDepartCall(t) ==
    /\ bthr[t].pc = "idle"
    /\ stopOps < MaxStopOps
    /\ stopOps' = stopOps + 1
    /\ \E b \in BusesOf(t), s \in GateStopIds :
         IF s \notin DOMAIN stop_semaphores
           THEN /\ bthr' = [bthr EXCEPT ![t] =
                              [BIdle EXCEPT !.op = "depart", !.bus = b, !.stop = s,
                                            !.pc = "ret"]]
                /\ UNCHANGED <<stop_semaphores, departs, strayDeparts>>
           ELSE /\ stop_semaphores' = [stop_semaphores EXCEPT ![s] = sem_release(@)]
                /\ departs' = [departs EXCEPT ![s] = @ + 1]
                /\ strayDeparts' = [strayDeparts EXCEPT ![s] = @ + 1]
                /\ bthr' = [bthr EXCEPT ![t] =
                              [BIdle EXCEPT !.op = "depart", !.bus = b, !.stop = s,
                                            !.pc = "ret", !.result = TRUE]]
    /\ UNCHANGED <<stop_queues, stop_locks, tickets, enqueued, admitLog, timedOut>>
    /\ UNCHANGED notStops

\* the call returns to its caller
StopReturn(t) ==
    /\ bthr[t].pc = "ret"
    /\ bthr' = [bthr EXCEPT ![t] = BIdle]
    /\ UNCHANGED <<stop_semaphores, stop_queues, stop_locks, stopOps, tickets,
                   enqueued, admitLog, departs, strayDeparts, timedOut>>
    /\ UNCHANGED notStops


(***************************************************************************)
(*                 SemaphoreSyncManager: life cycle                        *)
(***************************************************************************)
\* self.bus_capacity_semaphores = {} and the like
NoMap == [x \in {} |-> 0]

\* no seat or stop operation is in flight
GateQuiet ==
    /\ \A t \in SeatThreads : sthr[t].pc = "idle"
    /\ \A t \in BusThreads : bthr[t].pc = "idle"

\* run_scenarios from its first to its last line, as far as the attributes
\* go: self.threads is created and self.stop_signal ends True; the calls of
\* its worker threads are the seat operations
GateRunScenarios ==
    /\ GateQuiet
    /\ gate_threads' = "set"
    /\ gate_stop_signal' = TRUE
    /\ UNCHANGED <<cleanup_outcome, setup, seatVars, stopVars>>
    /\ UNCHANGED notLife

\* cleanup: self.stop_signal = True, then the loop over self.threads, which
\* raises AttributeError when run_scenarios never created the attribute;
\* otherwise the four maps are replaced by empty ones
GateCleanup ==
    /\ GateQuiet
    /\ IF gate_threads = "unset"
         THEN /\ gate_stop_signal' = TRUE
              /\ cleanup_outcome' = "raised"
              /\ UNCHANGED <<gate_threads, bus_capacity_semaphores, stop_semaphores,
                             stop_queues, stop_locks>>
         ELSE /\ gate_threads' = "set"
              /\ bus_capacity_semaphores' = NoMap
              /\ stop_semaphores' = NoMap
              /\ stop_queues' = NoMap
              /\ stop_locks' = NoMap
              /\ gate_stop_signal' = FALSE
              /\ cleanup_outcome' = "done"
    /\ UNCHANGED <<sthr, seatOps, seat, alights, strayAlights>>
    /\ UNCHANGED <<bthr, stopOps, tickets, enqueued, admitLog, departs, strayDeparts,
                   timedOut, setup>>
    /\ UNCHANGED notLife

(***************************************************************************)
(*        SemaphoreSyncManager, ConditionSyncManager: initialize()         *)
(***************************************************************************)
MaxSetupOps == 3
MaxSeedBuses == 2

SeedIds == {1, 2}
SetupIds == SeedIds \cup {9}
\* the capacity of a seed bus that has one
SeedCapacity == 2
\* the test data of a manager built without seed: capacity 50, Semaphore(2)
TestCapacity == 50
TestIds == {1, 2}

\* seed.buses: an ordered mapping of distinct bus ids to entries with or
\* without a capacity
SeedBuses ==
    {q \in UNION {[1 .. n -> [id : SeedIds, has_capacity : BOOLEAN]] :
                     n \in 0 .. MaxSeedBuses} :
        \A i, j \in 1 .. Len(q) : i /= j => q[i].id /= q[j].id}

\* the seeds a manager is built with: none, or an object with or without
\* the attributes buses and stops
Seeds ==
    {[given |-> FALSE, has_buses |-> FALSE, has_stops |-> FALSE, buses |-> <<>>,
      stops |-> {}]}
    \cup {[given |-> TRUE, has_buses |-> FALSE, has_stops |-> hs, buses |-> <<>>,
            stops |-> {}] : hs \in BOOLEAN}
    \cup {[given |-> TRUE, has_buses |-> TRUE, has_stops |-> FALSE, buses |-> b,
            stops |-> {}] : b \in SeedBuses}
    \cup {[given |-> TRUE, has_buses |-> TRUE, has_stops |-> TRUE, buses |-> b,
            stops |-> s] : b \in SeedBuses, s \in SUBSET SeedIds}

\* before __init__
Unbuilt ==
    [manager |-> "none", pc |-> "none", seed |-> CHOOSE s \in Seeds : ~s.given,
     todo |-> <<>>, stops |-> {}, bus_map |-> NoMap, stop_map |-> NoMap,
     result |-> "none", ops |-> 0, probe |-> "none"]

\* the buses initialize() iterates over when the manager has no seed
TestBuses == [i \in 1 .. Cardinality(TestIds) |-> [id |-> i, has_capacity |-> TRUE]]

\* m[k] = v
map_put(m, k, v) == [x \in DOMAIN m \cup {k} |-> IF x = k THEN v ELSE m[x]]

\* __init__: the maps are empty, the seed is kept
Construct ==
    /\ setup.manager = "none"
    /\ \E m \in {"semaphore", "condition"}, s \in Seeds :
         setup' = [Unbuilt EXCEPT !.manager = m, !.pc = "built", !.seed = s]
    /\ UNCHANGED <<gate_threads, gate_stop_signal, cleanup_outcome, seatVars, stopVars>>
    /\ UNCHANGED notLife

\* SemaphoreSyncManager.initialize() up to the first loop; a retry may
\* follow a change of self.seed
GateInitializeCall ==
    /\ setup.manager = "semaphore"
    /\ setup.pc \in {"built", "done"}
    /\ setup.ops < MaxSetupOps
    /\ \E s \in IF setup.pc = "built" THEN {setup.seed} ELSE Seeds :
         LET call == [setup EXCEPT !.seed = s, !.ops = @ + 1, !.probe = "none",
                                   !.result = "none"]
         IN setup' =
              IF ~s.given
                THEN [call EXCEPT !.pc = "buses", !.todo = TestBuses, !.stops = TestIds]
              ELSE IF ~s.has_buses \/ ~s.has_stops
                THEN [call EXCEPT !.pc = "done", !.result = "false"]
              ELSE [call EXCEPT !.pc = "buses", !.todo = s.buses, !.stops = s.stops]
    /\ UNCHANGED <<gate_threads, gate_stop_signal, cleanup_outcome, seatVars, stopVars>>
    /\ UNCHANGED notLife

\* one turn of "for bus_id, bus_data in buses.items()": the entry without a
\* capacity raises, and the except clause returns False
GateInitializeBus ==
    /\ setup.manager = "semaphore"
    /\ setup.pc = "buses"
    /\ setup' =
         IF setup.todo = <<>>
           THEN [setup EXCEPT !.pc = "stops"]
         ELSE IF ~Head(setup.todo).has_capacity
           THEN [setup EXCEPT !.pc = "done", !.result = "false", !.todo = <<>>]
         ELSE [setup EXCEPT !.todo = Tail(@),
                            !.bus_map =
                               map_put(@, Head(setup.todo).id,
                                       IF setup.seed.given THEN SeedCapacity
                                                           ELSE TestCapacity)]
    /\ UNCHANGED <<gate_threads, gate_stop_signal, cleanup_outcome, seatVars, stopVars>>
    /\ UNCHANGED notLife

\* "for stop_id in stops": Semaphore(2), queue and lock of every stop; return True
GateInitializeStops ==
    /\ setup.manager = "semaphore"
    /\ setup.pc = "stops"
    /\ setup' = [setup EXCEPT
                   !.stop_map = [s \in DOMAIN @ \cup setup.stops |->
                                   IF s \in setup.stops THEN stop_slots ELSE @[s]],
                   !.pc = "done", !.result = "true"]
    /\ UNCHANGED <<gate_threads, gate_stop_signal, cleanup_outcome, seatVars, stopVars>>
    /\ UNCHANGED notLife

\* ConditionSyncManager.initialize(): without seed bus_ids and stop_ids are
\* unbound, a seed without buses or stops raises AttributeError; both
\* happen before any map is written and the except clause returns False
RdvInitialize ==
    /\ setup.manager = "condition"
    /\ setup.pc \in {"built", "done"}
    /\ setup.ops < MaxSetupOps
    /\ \E s \in IF setup.pc = "built" THEN {setup.seed} ELSE Seeds :
         LET call == [setup EXCEPT !.seed = s, !.ops = @ + 1, !.probe = "none",
                                   !.pc = "done"]
         IN setup' =
              IF ~s.given \/ ~s.has_buses \/ ~s.has_stops
                THEN [call EXCEPT !.result = "false"]
                ELSE [call EXCEPT
                        !.result = "true",
                        !.stop_map = [x \in DOMAIN @ \cup s.stops |->
                                        IF x \in s.stops THEN 0 ELSE @[x]],
                        !.bus_map = [x \in DOMAIN @ \cup {s.buses[i].id :
                                                            i \in 1 .. Len(s.buses)} |->
                                       IF x \in DOMAIN @ /\ x \notin
                                            {s.buses[i].id : i \in 1 .. Len(s.buses)}
                                         THEN @[x] ELSE 0]]
    /\ UNCHANGED <<gate_threads, gate_stop_signal, cleanup_outcome, seatVars, stopVars>>
    /\ UNCHANGED notLife

\* an operation called after initialize() returned: alight_passenger /
\* bus_depart_from_stop on the gate, complete_boarding / notify_bus_departure
\* on the rendezvous coordinator; each looks its key up and fails when absent
SetupProbe ==
    /\ setup.pc = "done"
    /\ setup.ops < MaxSetupOps
    /\ \E k \in SetupIds, onBus \in BOOLEAN :
         LET m == IF onBus THEN setup.bus_map ELSE setup.stop_map
             known == ~unknown_key(k, DOMAIN m)
             after == IF ~known THEN m
                      ELSE IF setup.manager = "semaphore"
                        THEN [m EXCEPT ![k] = sem_release(@)]
                      ELSE IF onBus THEN [m EXCEPT ![k] = 1]
                      ELSE m
         IN setup' = [setup EXCEPT
                        !.ops = @ + 1,
                        !.probe = IF known THEN "true" ELSE "false",
                        !.bus_map = IF onBus THEN after ELSE @,
                        !.stop_map = IF onBus THEN @ ELSE after]
    /\ UNCHANGED <<gate_threads, gate_stop_signal, cleanup_outcome, seatVars, stopVars>>
    /\ UNCHANGED notLife

(***************************************************************************)
(*                 ConditionSyncManager: transfers                         *)
(***************************************************************************)
MaxXferOps == 3

RdvBuses == {0, 1}
RdvBusIds == RdvBuses \cup {9}
TransferPassengers == {1, 2}
XferThreads == {1, 2}
Timeouts == {0, 1}
NoTransfers == [p \in {} |-> <<0, 0>>]

XIdle == [pc |-> "idle", op |-> "none", pid |-> 0, from |-> 0, to |-> 0, bus |-> 0,
          timeout |-> 0, remaining |-> 0, wait_result |-> FALSE, waited |-> FALSE,
          sig |-> FALSE, seen |-> NoTransfers, result |-> FALSE]

\* mutant of already_pending: a pending transfer is never noticed
already_pending_never(map, p) == FALSE

\* start_transfer: passenger_id in self.transfers_in_progress
already_pending(map, p) == p \in DOMAIN map

\* complete_transfer: not (passenger_id not in self.transfers_in_progress)
has_transfer(map, p) == p \in DOMAIN map

\* mutant of pair_matches: the direction of the transfer is not compared
pair_matches_unordered(pair, f, t) == pair = <<f, t>> \/ pair = <<t, f>>

\* not (self.transfers_in_progress[passenger_id] != (from_bus_id, to_bus_id))
pair_matches(pair, f, t) == pair = <<f, t>>

\* mutant of has_pending_transfers: only the source bus is compared
has_pending_from_only(map, bus) == \E p \in DOMAIN map : map[p][1] = bus

\* has_pending_transfers() of wait_for_transfer_completion
has_pending_transfers(map, bus) ==
    \E p \in DOMAIN map : map[p][1] = bus \/ map[p][2] = bus

\* self.transfers_in_progress[passenger_id] = (from_bus_id, to_bus_id)
dict_set(map, p, pair) ==
    [q \in DOMAIN map \cup {p} |-> IF q = p THEN pair ELSE map[q]]

\* del self.transfers_in_progress[passenger_id]
dict_del(map, p) == [q \in DOMAIN map \ {p} |-> map[q]]

\* self.transfer_condition.notify_all(): every thread in wait() is woken and
\* will see wait() return True once it has the lock again
notify_all(thr) ==
    [u \in DOMAIN thr |->
        IF thr[u].pc = "waiting"
          THEN [thr[u] EXCEPT !.pc = "reacquire", !.wait_result = TRUE]
          ELSE thr[u]]

\* remaining_timeout = max(0, timeout - elapsed): positive only for a positive
\* timeout, and then as long as the clock has not reached the deadline
RemainingValues(timeout) == IF timeout <= 0 THEN {0} ELSE {0, 1}

\* start_transfer / complete_transfer / wait_for_transfer_completion up to the
\* lock: the buses must be known
XferCall(t) ==
    /\ xthr[t].pc = "idle"
    /\ xferOps < MaxXferOps
    /\ xferOps' = xferOps + 1
    /\ \/ \E op \in {"start", "complete"}, p \in TransferPassengers,
             f \in RdvBusIds, to \in RdvBusIds :
            xthr' = [xthr EXCEPT ![t] =
                       [XIdle EXCEPT !.op = op, !.pid = p, !.from = f, !.to = to,
                                     !.pc = IF f \notin RdvBuses \/ to \notin RdvBuses
                                              THEN "ret" ELSE "lock"]]
       \/ \E b \in RdvBusIds, d \in Timeouts :
            xthr' = [xthr EXCEPT ![t] =
                       [XIdle EXCEPT !.op = "wait", !.bus = b, !.timeout = d,
                                     !.sig = stop_signal,
                                     !.pc = IF b \notin RdvBuses THEN "ret" ELSE "lock"]]
    /\ UNCHANGED <<transfer_lock, transfers_in_progress, stop_signal, opened>>
    /\ UNCHANGED notTransfers

\* with self.transfer_condition: (and, in the wait, the first remaining_timeout)
XferAcquire(t) ==
    /\ xthr[t].pc = "lock"
    /\ lock_acquire_ok(transfer_lock)
    /\ transfer_lock' = t
    /\ \E r \in RemainingValues(xthr[t].timeout) :
         xthr' = [xthr EXCEPT ![t] =
                    [@ EXCEPT !.seen = transfers_in_progress,
                              !.sig = xthr[t].op = "wait" /\ stop_signal,
                              !.remaining = IF xthr[t].op = "wait" THEN r ELSE 0,
                              !.pc = IF xthr[t].op = "wait" THEN "loop" ELSE "check"]]
    /\ UNCHANGED <<transfers_in_progress, stop_signal, xferOps, opened>>
    /\ UNCHANGED notTransfers

\* start_transfer: is a transfer already pending for this passenger?
StartCheck(t) ==
    /\ xthr[t].pc = "check" /\ xthr[t].op = "start"
    /\ xthr' = [xthr EXCEPT ![t] =
                  IF already_pending(transfers_in_progress, xthr[t].pid)
                    THEN [@ EXCEPT !.result = FALSE, !.pc = "unlock"]
                    ELSE [@ EXCEPT !.pc = "write"]]
    /\ UNCHANGED <<transfer_lock, transfers_in_progress, stop_signal, xferOps, opened>>
    /\ UNCHANGED notTransfers

\* start_transfer: record the pair and notify_all
StartWrite(t) ==
    /\ xthr[t].pc = "write" /\ xthr[t].op = "start"
    /\ transfers_in_progress' =
          dict_set(transfers_in_progress, xthr[t].pid, <<xthr[t].from, xthr[t].to>>)
    /\ opened' = [opened EXCEPT ![xthr[t].pid] = @ + 1]
    /\ xthr' = [notify_all(xthr) EXCEPT ![t].result = TRUE, ![t].pc = "unlock"]
    /\ UNCHANGED <<transfer_lock, stop_signal, xferOps>>
    /\ UNCHANGED notTransfers

\* complete_transfer: a transfer must be pending and be exactly (from, to)
CompleteCheck(t) ==
    /\ xthr[t].pc = "check" /\ xthr[t].op = "complete"
    /\ xthr' = [xthr EXCEPT ![t] =
                  IF ~has_transfer(transfers_in_progress, xthr[t].pid)
                    THEN [@ EXCEPT !.result = FALSE, !.pc = "unlock"]
                  ELSE IF ~pair_matches(transfers_in_progress[xthr[t].pid],
                                        xthr[t].from, xthr[t].to)
                    THEN [@ EXCEPT !.result = FALSE, !.pc = "unlock"]
                  ELSE [@ EXCEPT !.pc = "write"]]
    /\ UNCHANGED <<transfer_lock, transfers_in_progress, stop_signal, xferOps, opened>>
    /\ UNCHANGED notTransfers

\* complete_transfer: delete the entry and notify_all
CompleteWrite(t) ==
    /\ xthr[t].pc = "write" /\ xthr[t].op = "complete"
    /\ transfers_in_progress' = dict_del(transfers_in_progress, xthr[t].pid)
    /\ opened' = [opened EXCEPT ![xthr[t].pid] = @ - 1]
    /\ xthr' = [notify_all(xthr) EXCEPT ![t].result = TRUE, ![t].pc = "unlock"]
    /\ UNCHANGED <<transfer_lock, stop_signal, xferOps>>
    /\ UNCHANGED notTransfers

\* wait_for_transfer_completion: the loop test; either wait() (which releases
\* the lock) or fall through to transfers_completed = not has_pending_transfers()
WaitLoop(t) ==
    /\ xthr[t].pc = "loop"
    /\ IF has_pending_transfers(transfers_in_progress, xthr[t].bus)
          /\ xthr[t].remaining > 0
         THEN /\ transfer_lock' = NoThread
              /\ xthr' = [xthr EXCEPT ![t].pc = "waiting", ![t].waited = TRUE]
         ELSE /\ xthr' = [xthr EXCEPT
                            ![t].result =
                               ~has_pending_transfers(transfers_in_progress, xthr[t].bus),
                            ![t].pc = "unlock"]
              /\ UNCHANGED transfer_lock
    /\ UNCHANGED <<transfers_in_progress, stop_signal, xferOps, opened>>
    /\ UNCHANGED notTransfers

\* wait(remaining_timeout) runs out of time
WaitTimeout(t) ==
    /\ xthr[t].pc = "waiting"
    /\ xthr' = [xthr EXCEPT ![t].pc = "reacquire", ![t].wait_result = FALSE]
    /\ UNCHANGED <<transfer_lock, transfers_in_progress, stop_signal, xferOps, opened>>
    /\ UNCHANGED notTransfers

\* wait() returns with the lock held; remaining_timeout is recomputed and the
\* loop is left on the stop signal or on a timed-out wait
WaitReacquire(t) ==
    /\ xthr[t].pc = "reacquire"
    /\ lock_acquire_ok(transfer_lock)
    /\ transfer_lock' = t
    /\ \E r \in (IF xthr[t].wait_result THEN RemainingValues(xthr[t].timeout) ELSE {0}) :
         xthr' = [xthr EXCEPT ![t] =
                    IF stop_signal \/ ~xthr[t].wait_result
                      THEN [@ EXCEPT
                              !.remaining = r,
                              !.sig = stop_signal,
                              !.result = ~has_pending_transfers(transfers_in_progress,
                                                                xthr[t].bus),
                              !.pc = "unlock"]
                      ELSE [@ EXCEPT !.remaining = r, !.sig = stop_signal,
                                     !.pc = "loop"]]
    /\ UNCHANGED <<transfers_in_progress, stop_signal, xferOps, opened>>
    /\ UNCHANGED notTransfers

\* leaving the with block and returning
XferRelease(t) ==
    /\ xthr[t].pc = "unlock"
    /\ transfer_lock' = NoThread
    /\ xthr' = [xthr EXCEPT ![t] = XIdle]
    /\ UNCHANGED <<transfers_in_progress, stop_signal, xferOps, opened>>
    /\ UNCHANGED notTransfers

\* the early "return False" for an unknown bus
XferReturn(t) ==
    /\ xthr[t].pc = "ret"
    /\ xthr' = [xthr EXCEPT ![t] = XIdle]
    /\ UNCHANGED <<transfer_lock, transfers_in_progress, stop_signal, xferOps, opened>>
    /\ UNCHANGED notTransfers

\* run_scenarios: self.stop_signal = True
SetStopSignal ==
    /\ ~stop_signal
    /\ stop_signal' = TRUE
    /\ UNCHANGED <<transfer_lock, transfers_in_progress, xthr, xferOps, opened>>
    /\ UNCHANGED notTransfers

(***************************************************************************)
(*               ConditionSyncManager: stop monitors                       *)
(***************************************************************************)
MaxPresOps == 3

RdvStops == {1, 2}
RdvStopIds == RdvStops \cup {9}
PresThreads == {1, 2}
NoTarget == -1
NotFound == -1
Targets == {NoTarget} \cup RdvBuses

PIdle == [pc |-> "idle", op |-> "none", bus |-> 0, stop |-> 0, target |-> NoTarget,
          timeout |-> 0, remaining |-> 0, wait_result |-> FALSE, waited |-> FALSE,
          sig |-> FALSE, found |-> NotFound, result |-> FALSE, arrived |-> {}]

\* "if target_bus_id:" is false for None and for the identifier 0
truthy(target) == target /= NoTarget /\ target /= 0

\* mutant of bus_found_values: the stop signal is not looked at
bus_found_unstoppable(sig, target, present, remaining) ==
    IF truthy(target)
      THEN (IF target \in present THEN {target}
            ELSE IF remaining = 0 THEN {NotFound} ELSE {})
    ELSE IF present /= {} THEN present
    ELSE IF remaining = 0 THEN {NotFound} ELSE {}

\* mutant of bus_found_values: the sentinel is returned without waiting
bus_found_impatient(sig, target, present, remaining) ==
    IF sig THEN {NotFound}
    ELSE IF truthy(target)
      THEN (IF target \in present THEN {target} ELSE {NotFound})
    ELSE IF present /= {} THEN present
    ELSE {NotFound}

\* one pass of the loop of wait_for_bus: the values bus_found may take, none
\* when the thread goes on to wait(); next(iter(set)) may yield any element
bus_found_values(sig, target, present, remaining) ==
    IF sig THEN {NotFound}
    ELSE IF truthy(target)
      THEN (IF target \in present THEN {target}
            ELSE IF remaining = 0 THEN {NotFound} ELSE {})
    ELSE IF present /= {} THEN present
    ELSE IF remaining = 0 THEN {NotFound} ELSE {}

\* mutant of present_after: a departure leaves the bus in the set
present_after_sticky(op, present, b) ==
    IF op = "notify_bus_arrival" THEN present \cup {b} ELSE present

\* self.bus_at_stop[stop_id].add(bus_id) / .discard(bus_id)
present_after(op, present, b) ==
    IF op = "notify_bus_arrival" THEN present \cup {b} ELSE present \ {b}

\* self.stop_conditions[stop_id].notify_all()
stop_notify_all(thr, s) ==
    [u \in DOMAIN thr |->
        IF thr[u].pc = "waiting" /\ thr[u].stop = s
          THEN [thr[u] EXCEPT !.pc = "reacquire", !.wait_result = TRUE]
          ELSE thr[u]]

\* a wait_for_bus on stop s that has gone into wait() and not come out of
\* its monitor since
Blocked(r, s) ==
    r.op = "wait_for_bus" /\ r.stop = s /\ r.pc \in {"waiting", "reacquire"}

\* history: each wait_for_bus blocked on s records the buses that arrived at
\* s while it was blocked and have not departed since
note_arrivals(thr, s, op, b) ==
    [u \in DOMAIN thr |->
        IF Blocked(thr[u], s)
          THEN [thr[u] EXCEPT !.arrived = present_after(op, @, b)]
          ELSE IF thr[u].op = "wait_for_bus" /\ thr[u].stop = s
            THEN [thr[u] EXCEPT !.arrived = @ \ (IF op = "notify_bus_departure"
                                                   THEN {b} ELSE {})]
          ELSE thr[u]]

\* wait_for_bus / notify_bus_arrival / notify_bus_departure up to the
\* monitor: the stop must be known
PresCall(t) ==
    /\ pthr[t].pc = "idle"
    /\ presOps < MaxPresOps
    /\ presOps' = presOps + 1
    /\ \/ \E s \in RdvStopIds, g \in Targets, d \in Timeouts :
            pthr' = [pthr EXCEPT ![t] =
                       [PIdle EXCEPT !.op = "wait_for_bus", !.stop = s, !.target = g,
                                     !.timeout = d, !.sig = stop_signal,
                                     !.pc = IF unknown_key(s, DOMAIN stop_cond_locks)
                                              THEN "ret" ELSE "lock"]]
       \/ \E op \in {"notify_bus_arrival", "notify_bus_departure"},
             b \in RdvBusIds, s \in RdvStopIds :
            pthr' = [pthr EXCEPT ![t] =
                       [PIdle EXCEPT !.op = op, !.bus = b, !.stop = s,
                                     !.pc = IF unknown_key(s, DOMAIN stop_cond_locks)
                                              THEN "ret" ELSE "lock"]]
    /\ UNCHANGED <<stop_cond_locks, bus_at_stop, arrivals>>
    /\ UNCHANGED notPresence

\* "with self.stop_conditions[stop_id]:" and, in wait_for_bus, the first
\* reading of the clock
PresAcquire(t) ==
    /\ pthr[t].pc = "lock"
    /\ lock_acquire_ok(stop_cond_locks[pthr[t].stop])
    /\ stop_cond_locks' = [stop_cond_locks EXCEPT ![pthr[t].stop] = t]
    /\ LET waits == pthr[t].op = "wait_for_bus" IN
       \E r \in (IF waits THEN RemainingValues(pthr[t].timeout) ELSE {0}) :
            pthr' = [pthr EXCEPT ![t].remaining = r,
                                 ![t].sig = waits /\ stop_signal,
                                 ![t].pc = IF waits THEN "loop" ELSE "write"]
    /\ UNCHANGED <<bus_at_stop, presOps, arrivals>>
    /\ UNCHANGED notPresence

\* wait_for_bus: one pass of "while True" up to break or to wait(), which
\* releases the monitor
BusLoop(t) ==
    /\ pthr[t].pc = "loop"
    /\ LET s == pthr[t].stop
           vals == bus_found_values(stop_signal, pthr[t].target, bus_at_stop[s],
                                    pthr[t].remaining)
       IN IF vals = {}
            THEN /\ stop_cond_locks' = [stop_cond_locks EXCEPT ![s] = NoThread]
                 /\ pthr' = [pthr EXCEPT ![t].pc = "waiting", ![t].waited = TRUE]
            ELSE /\ \E v \in vals :
                       pthr' = [pthr EXCEPT ![t].found = v, ![t].pc = "unlock"]
                 /\ UNCHANGED stop_cond_locks
    /\ UNCHANGED <<bus_at_stop, presOps, arrivals>>
    /\ UNCHANGED notPresence

\* notify_bus_arrival / notify_bus_departure: add or discard the bus, notify_all
PresenceWrite(t) ==
    /\ pthr[t].pc = "write"
    /\ LET s == pthr[t].stop
           b == pthr[t].bus
           arriving == pthr[t].op = "notify_bus_arrival"
       IN /\ bus_at_stop' = [bus_at_stop EXCEPT ![s] =
                               present_after(pthr[t].op, @, b)]
          /\ arrivals' = [arrivals EXCEPT ![s] = @ \/ arriving]
          /\ pthr' = [stop_notify_all(note_arrivals(pthr, s, pthr[t].op, b), s)
                        EXCEPT ![t].result = TRUE, ![t].pc = "unlock"]
    /\ UNCHANGED <<stop_cond_locks, presOps>>
    /\ UNCHANGED notPresence

\* wait(timeout - elapsed_time) runs out of time
PresWaitTimeout(t) ==
    /\ pthr[t].pc = "waiting"
    /\ pthr' = [pthr EXCEPT ![t].pc = "reacquire", ![t].wait_result = FALSE]
    /\ UNCHANGED <<stop_cond_locks, bus_at_stop, presOps, arrivals>>
    /\ UNCHANGED notPresence

\* wait() returns with the monitor held; back to the top of the loop, where
\* the clock is read again
PresReacquire(t) ==
    /\ pthr[t].pc = "reacquire"
    /\ lock_acquire_ok(stop_cond_locks[pthr[t].stop])
    /\ stop_cond_locks' = [stop_cond_locks EXCEPT ![pthr[t].stop] = t]
    /\ \E r \in (IF pthr[t].wait_result THEN RemainingValues(pthr[t].timeout)
                 ELSE {0}) :
         pthr' = [pthr EXCEPT ![t].remaining = r, ![t].sig = stop_signal,
                              ![t].pc = "loop"]
    /\ UNCHANGED <<bus_at_stop, presOps, arrivals>>
    /\ UNCHANGED notPresence

\* leaving the with block and returning
PresRelease(t) ==
    /\ pthr[t].pc = "unlock"
    /\ stop_cond_locks' = [stop_cond_locks EXCEPT ![pthr[t].stop] = NoThread]
    /\ pthr' = [pthr EXCEPT ![t] = PIdle]
    /\ UNCHANGED <<bus_at_stop, presOps, arrivals>>
    /\ UNCHANGED notPresence

\* the early return for an unknown stop
PresReturn(t) ==
    /\ pthr[t].pc = "ret"
    /\ pthr' = [pthr EXCEPT ![t] = PIdle]
    /\ UNCHANGED <<stop_cond_locks, bus_at_stop, presOps, arrivals>>
    /\ UNCHANGED notPresence

(***************************************************************************)
(*               ConditionSyncManager: bus monitors                        *)
(***************************************************************************)
MaxFlagOps == 3

FlagThreads == {1, 2}
StartStops == {1, 9}
StartOps == {"start_boarding", "start_alighting"}
CompleteOps == {"complete_boarding", "complete_alighting"}
FlagWaitOps == {"wait_for_boarding_completion", "wait_for_alighting_completion"}
BoardingOps == {"start_boarding", "complete_boarding", "wait_for_boarding_completion"}

FIdle == [pc |-> "idle", op |-> "none", bus |-> 0, stop |-> 0, timeout |-> 0,
          remaining |-> 0, wait_result |-> FALSE, waited |-> FALSE, sig |-> FALSE,
          active |-> FALSE, before |-> FALSE, result |-> FALSE]

\* mutant of start_refused: start_boarding never refuses
start_refused_alighting_only(op, complete) ==
    IF op = "start_boarding" THEN FALSE ELSE ~complete

\* mutant of start_refused: start_alighting never refuses
start_refused_boarding_only(op, complete) ==
    IF op = "start_boarding" THEN complete ELSE FALSE

\* the test that makes start_boarding / start_alighting return False:
\* "if self.boarding_complete[bus_id]" and "if not self.alighting_complete[bus_id]"
start_refused(op, complete) ==
    IF op = "start_boarding" THEN complete ELSE ~complete

\* self.bus_conditions[bus_id].notify_all()
bus_notify_all(thr, b) ==
    [u \in DOMAIN thr |->
        IF thr[u].pc = "waiting" /\ thr[u].bus = b
          THEN [thr[u] EXCEPT !.pc = "reacquire", !.wait_result = TRUE]
          ELSE thr[u]]

\* mutant of flag_value: complete_* clears the flag as start_* does
flag_value_cleared(op) == FALSE

\* the value start_* / complete_* assigns to the completion flag
flag_value(op) == op \in CompleteOps

\* mutant of wait_needed: a set flag does not end the loop
wait_needed_flagless(complete, remaining) == remaining > 0

\* wait_for_*_completion: "while not complete and remaining_timeout > 0"
wait_needed(complete, remaining) == ~complete /\ remaining > 0

\* the completion flag an operation reads or writes
flag_of(op, b) ==
    IF op \in BoardingOps THEN boarding_complete[b] ELSE alighting_complete[b]

\* the operations on a bus up to its monitor: the bus must be known
FlagCall(t) ==
    /\ fthr[t].pc = "idle"
    /\ flagOps < MaxFlagOps
    /\ flagOps' = flagOps + 1
    /\ \/ \E op \in StartOps, b \in RdvBusIds, s \in StartStops :
            fthr' = [fthr EXCEPT ![t] =
                       [FIdle EXCEPT !.op = op, !.bus = b, !.stop = s,
                                     !.pc = IF unknown_key(b, DOMAIN bus_cond_locks)
                                              THEN "ret" ELSE "lock"]]
       \/ \E op \in CompleteOps, b \in RdvBusIds :
            fthr' = [fthr EXCEPT ![t] =
                       [FIdle EXCEPT !.op = op, !.bus = b,
                                     !.pc = IF unknown_key(b, DOMAIN bus_cond_locks)
                                              THEN "ret" ELSE "lock"]]
       \/ \E op \in FlagWaitOps, b \in RdvBusIds, d \in Timeouts :
            fthr' = [fthr EXCEPT ![t] =
                       [FIdle EXCEPT !.op = op, !.bus = b, !.timeout = d,
                                     !.sig = stop_signal,
                                     !.pc = IF unknown_key(b, DOMAIN bus_cond_locks)
                                              THEN "ret" ELSE "lock"]]
    /\ UNCHANGED <<bus_cond_locks, boarding_complete, alighting_complete,
                   boarding_started, alighting_started>>
    /\ UNCHANGED notFlags

\* "with self.bus_conditions[bus_id]:" and, in the waits, the first
\* remaining_timeout
FlagAcquire(t) ==
    /\ fthr[t].pc = "lock"
    /\ lock_acquire_ok(bus_cond_locks[fthr[t].bus])
    /\ bus_cond_locks' = [bus_cond_locks EXCEPT ![fthr[t].bus] = t]
    /\ LET op == fthr[t].op IN
       \E r \in (IF op \in FlagWaitOps THEN RemainingValues(fthr[t].timeout)
                 ELSE {0}) :
            fthr' = [fthr EXCEPT ![t].remaining = r,
                                 ![t].sig = op \in FlagWaitOps /\ stop_signal,
                                 ![t].pc = IF op \in FlagWaitOps THEN "loop"
                                           ELSE IF op \in StartOps THEN "check"
                                           ELSE "write"]
    /\ UNCHANGED <<boarding_complete, alighting_complete, flagOps, boarding_started,
                   alighting_started>>
    /\ UNCHANGED notFlags

\* start_boarding / start_alighting: the test of the completion flag
FlagCheck(t) ==
    /\ fthr[t].pc = "check"
    /\ LET op == fthr[t].op
           b == fthr[t].bus
           running == IF op = "start_boarding" THEN boarding_started[b]
                      ELSE alighting_started[b]
       IN fthr' = [fthr EXCEPT ![t] =
                     IF start_refused(op, flag_of(op, b))
                       THEN [@ EXCEPT !.active = running, !.result = FALSE,
                                      !.pc = "unlock"]
                       ELSE [@ EXCEPT !.active = running, !.pc = "write"]]
    /\ UNCHANGED <<bus_cond_locks, boarding_complete, alighting_complete, flagOps,
                   boarding_started, alighting_started>>
    /\ UNCHANGED notFlags

\* start_*: flag = False; complete_*: flag = True; then notify_all
FlagWrite(t) ==
    /\ fthr[t].pc = "write"
    /\ LET op == fthr[t].op
           b == fthr[t].bus
           value == flag_value(op)
       IN /\ IF op \in BoardingOps
               THEN /\ boarding_complete' = [boarding_complete EXCEPT ![b] = value]
                    /\ boarding_started' = [boarding_started EXCEPT ![b] = ~value]
                    /\ UNCHANGED <<alighting_complete, alighting_started>>
               ELSE /\ alighting_complete' = [alighting_complete EXCEPT ![b] = value]
                    /\ alighting_started' = [alighting_started EXCEPT ![b] = ~value]
                    /\ UNCHANGED <<boarding_complete, boarding_started>>
          /\ fthr' = [bus_notify_all(fthr, b) EXCEPT
                        ![t].before = flag_of(op, b),
                        ![t].result = TRUE, ![t].pc = "unlock"]
    /\ UNCHANGED <<bus_cond_locks, flagOps>>
    /\ UNCHANGED notFlags

\* wait_for_boarding_completion / wait_for_alighting_completion: the loop
\* test; either wait() or fall through to is_complete = flag
FlagLoop(t) ==
    /\ fthr[t].pc = "loop"
    /\ LET b == fthr[t].bus
           complete == flag_of(fthr[t].op, b)
       IN IF wait_needed(complete, fthr[t].remaining)
            THEN /\ bus_cond_locks' = [bus_cond_locks EXCEPT ![b] = NoThread]
                 /\ fthr' = [fthr EXCEPT ![t].pc = "waiting", ![t].waited = TRUE]
            ELSE /\ fthr' = [fthr EXCEPT ![t].result = complete, ![t].pc = "unlock"]
                 /\ UNCHANGED bus_cond_locks
    /\ UNCHANGED <<boarding_complete, alighting_complete, flagOps, boarding_started,
                   alighting_started>>
    /\ UNCHANGED notFlags

\* wait(remaining_timeout) runs out of time
FlagWaitTimeout(t) ==
    /\ fthr[t].pc = "waiting"
    /\ fthr' = [fthr EXCEPT ![t].pc = "reacquire", ![t].wait_result = FALSE]
    /\ UNCHANGED <<bus_cond_locks, boarding_complete, alighting_complete, flagOps,
                   boarding_started, alighting_started>>
    /\ UNCHANGED notFlags

\* wait() returns with the monitor held; remaining_timeout is recomputed and
\* the loop is left on the stop signal or on a timed-out wait
FlagReacquire(t) ==
    /\ fthr[t].pc = "reacquire"
    /\ lock_acquire_ok(bus_cond_locks[fthr[t].bus])
    /\ bus_cond_locks' = [bus_cond_locks EXCEPT ![fthr[t].bus] = t]
    /\ \E r \in (IF fthr[t].wait_result THEN RemainingValues(fthr[t].timeout)
                 ELSE {0}) :
         fthr' = [fthr EXCEPT ![t] =
                    IF stop_signal \/ ~fthr[t].wait_result
                      THEN [@ EXCEPT !.remaining = r, !.sig = stop_signal,
                                     !.result = flag_of(fthr[t].op, fthr[t].bus),
                                     !.pc = "unlock"]
                      ELSE [@ EXCEPT !.remaining = r, !.sig = stop_signal,
                                     !.pc = "loop"]]
    /\ UNCHANGED <<boarding_complete, alighting_complete, flagOps, boarding_started,
                   alighting_started>>
    /\ UNCHANGED notFlags

\* leaving the with block and returning
FlagRelease(t) ==
    /\ fthr[t].pc = "unlock"
    /\ bus_cond_locks' = [bus_cond_locks EXCEPT ![fthr[t].bus] = NoThread]
    /\ fthr' = [fthr EXCEPT ![t] = FIdle]
    /\ UNCHANGED <<boarding_complete, alighting_complete, flagOps, boarding_started,
                   alighting_started>>
    /\ UNCHANGED notFlags

\* the early "return False" for an unknown bus
FlagReturn(t) ==
    /\ fthr[t].pc = "ret"
    /\ fthr' = [fthr EXCEPT ![t] = FIdle]
    /\ UNCHANGED <<bus_cond_locks, boarding_complete, alighting_complete, flagOps,
                   boarding_started, alighting_started>>
    /\ UNCHANGED notFlags

(***************************************************************************)
(*                          Specifications                                 *)
(***************************************************************************)
\* the three managers after initialize(): all locks free, no transfer pending, one account at
\* 3.00$ and one at 3.50$, semaphores at their capacities, queues empty
Init ==
    /\ card_locks = [p \in KnownPassengers |-> NoThread]
    /\ card_balances = [p \in KnownPassengers |-> IF p = 1 THEN 6 ELSE 7]
    /\ expected = card_balances
    /\ lthr = [t \in LedgerThreads |-> LIdle]
    /\ ledgerOps = 0
    /\ passes = [p \in KnownPassengers |-> 0]
    /\ ledger_stop_locks = [s \in LedgerStops |-> NoThread]
    /\ bus_passenger_list = [b \in {TheBus} |-> <<>>]
    /\ stop_passenger_list = [s \in LedgerStops |-> WaitingAt(s)]
    /\ wthr = [t \in Workers |-> WIdle]
    /\ boardOps = 0
    /\ gate_threads = "unset"
    /\ gate_stop_signal = "unset"
    /\ cleanup_outcome = "none"
    /\ setup = Unbuilt
    /\ bus_capacity_semaphores = [b \in KnownBuses |-> BusCapacity]
    /\ sthr = [t \in SeatThreads |-> SIdle]
    /\ seatOps = 0
    /\ seat = [t \in SeatThreads |-> NoBus]
    /\ alights = [b \in KnownBuses |-> 0]
    /\ strayAlights = [b \in KnownBuses |-> 0]
    /\ stop_semaphores = [s \in KnownStops |-> stop_slots]
    /\ stop_queues = [s \in KnownStops |-> <<>>]
    /\ stop_locks = [s \in KnownStops |-> NoThread]
    /\ bthr = [t \in BusThreads |-> BIdle]
    /\ stopOps = 0
    /\ tickets = [s \in KnownStops |-> <<>>]
    /\ enqueued = [s \in KnownStops |-> 0]
    /\ admitLog = [s \in KnownStops |-> <<>>]
    /\ departs = [s \in KnownStops |-> 0]
    /\ strayDeparts = [s \in KnownStops |-> 0]
    /\ timedOut = [s \in KnownStops |-> 0]
    /\ transfer_lock = NoThread
    /\ transfers_in_progress = NoTransfers
    /\ stop_signal = FALSE
    /\ xthr = [t \in XferThreads |-> XIdle]
    /\ xferOps = 0
    /\ opened = [p \in TransferPassengers |-> 0]
    /\ stop_cond_locks = [s \in RdvStops |-> NoThread]
    /\ bus_at_stop = [s \in RdvStops |-> {}]
    /\ bus_cond_locks = [b \in RdvBuses |-> NoThread]
    /\ boarding_complete = [b \in RdvBuses |-> FALSE]
    /\ alighting_complete = [b \in RdvBuses |-> FALSE]
    /\ pthr = [t \in PresThreads |-> PIdle]
    /\ presOps = 0
    /\ fthr = [t \in FlagThreads |-> FIdle]
    /\ flagOps = 0
    /\ arrivals = [s \in RdvStops |-> FALSE]
    /\ boarding_started = [b \in RdvBuses |-> FALSE]
    /\ alighting_started = [b \in RdvBuses |-> FALSE]

NextLedger ==
    \E t \in LedgerThreads :
        \/ LedgerCall(t)
        \/ LedgerAcquire(t)
        \/ LedgerCheck(t)
        \/ LedgerWrite(t)
        \/ LedgerRelease(t)
        \/ LedgerReturn(t)

NextBoarding ==
    \E t \in Workers :
        \/ BoardPassengersCall(t)
        \/ AlightPassengersCall(t)
        \/ BoardPassengersAcquire(t)
        \/ BoardPassengersCheck(t)
        \/ BoardPassengersPay(t)
        \/ BoardPassengersCard(t)
        \/ BoardPassengersCardRelease(t)
        \/ BoardPassengersMove(t)
        \/ AlightPassengersCheck(t)
        \/ AlightPassengersMove(t)
        \/ BoardPassengersRelease(t)
        \/ BoardPassengersReturn(t)

NextSeats ==
    \E t \in SeatThreads :
        \/ BoardCall(t)
        \/ BoardAcquire(t)
        \/ BoardTimeout(t)
        \/ AlightCall(t)
        \/ SeatReturn(t)

NextStops ==
    \E t \in BusThreads :
        \/ ArriveCall(t)
        \/ ArriveEnqueue(t)
        \/ ArriveLock(t)
        \/ ArriveHead(t)
        \/ ArrivePop(t)
        \/ ArriveTimeout(t)
        \/ ArriveRemove(t)
        \/ DepartCall(t)
        \/ StrayDepartCall(t)
        \/ StopReturn(t)

NextTransfers ==
    \/ \E t \in XferThreads :
          \/ XferCall(t)
          \/ XferAcquire(t)
          \/ StartCheck(t)
          \/ StartWrite(t)
          \/ CompleteCheck(t)
          \/ CompleteWrite(t)
          \/ WaitLoop(t)
          \/ WaitTimeout(t)
          \/ WaitReacquire(t)
          \/ XferRelease(t)
          \/ XferReturn(t)
    \/ SetStopSignal

NextPresence ==
    \/ \E t \in PresThreads :
          \/ PresCall(t)
          \/ PresAcquire(t)
          \/ BusLoop(t)
          \/ PresenceWrite(t)
          \/ PresWaitTimeout(t)
          \/ PresReacquire(t)
          \/ PresRelease(t)
          \/ PresReturn(t)
    \/ SetStopSignal

NextFlags ==
    \/ \E t \in FlagThreads :
          \/ FlagCall(t)
          \/ FlagAcquire(t)
          \/ FlagCheck(t)
          \/ FlagWrite(t)
          \/ FlagLoop(t)
          \/ FlagWaitTimeout(t)
          \/ FlagReacquire(t)
          \/ FlagRelease(t)
          \/ FlagReturn(t)
    \/ SetStopSignal

SpecLedger == Init /\ [][NextLedger]_vars

SpecBoarding == Init /\ [][NextBoarding]_vars

SpecPresence == Init /\ [][NextPresence]_vars

\* what a thread inside a stop-monitor call does next; wait() has a finite
\* timeout, so its expiry is among the steps that cannot be put off for ever
PresProgress(t) ==
    \/ PresAcquire(t)
    \/ BusLoop(t)
    \/ PresenceWrite(t)
    \/ PresWaitTimeout(t)
    \/ PresReacquire(t)
    \/ PresRelease(t)
    \/ PresReturn(t)

\* the stop monitors with every started call scheduled again and again
FairPresence ==
    /\ SpecPresence
    /\ \A t \in PresThreads : WF_vars(PresProgress(t))

\* ConditionSyncManager as a whole. Its stop monitors, bus monitors and
\* transfer monitor share nothing but stop_signal, which none of their
\* operations writes, so a run exercises one family of monitors
NextCondition ==
    \/ flagOps = 0 /\ xferOps = 0 /\ NextPresence
    \/ presOps = 0 /\ xferOps = 0 /\ NextFlags
    \/ presOps = 0 /\ flagOps = 0 /\ NextTransfers

SpecCondition == Init /\ [][NextCondition]_vars

SpecFlags == Init /\ [][NextFlags]_vars

SpecTransfers == Init /\ [][NextTransfers]_vars

SpecSeats == Init /\ [][NextSeats]_vars

SpecStops == Init /\ [][NextStops]_vars

\* the seat operations of the gate together with its run_scenarios and cleanup
NextLife ==
    \/ NextSeats
    \/ GateRunScenarios
    \/ GateCleanup

SpecLife == Init /\ [][NextLife]_vars

\* the steps of a started bus_arrive_at_stop / bus_depart_from_stop other
\* than the expiry of its timeout
StopProgress(t) ==
    \/ ArriveEnqueue(t)
    \/ ArriveLock(t)
    \/ ArriveHead(t)
    \/ ArrivePop(t)
    \/ ArriveRemove(t)
    \/ StopReturn(t)

\* the stops with every started call scheduled again and again, and the
\* clock running: a call that keeps polling finds its timeout expired
MaxQueueOps == 3

NextQueue == NextStops /\ stopOps' <= MaxQueueOps

SpecQueue == Init /\ [][NextQueue]_vars

FairStops ==
    /\ SpecQueue
    /\ \A t \in BusThreads : WF_vars(StopProgress(t))
    /\ \A t \in BusThreads : SF_vars(ArriveTimeout(t))

\* the capacity gate as a whole: seat calls and stop calls interleaved,
\* MaxGateOps calls in all
MaxGateOps == 3

NextGate ==
    \/ NextSeats /\ seatOps' + stopOps' <= MaxGateOps
    \/ NextStops /\ seatOps' + stopOps' <= MaxGateOps

SpecGate == Init /\ [][NextGate]_vars

NextSetup ==
    \/ Construct
    \/ GateInitializeCall
    \/ GateInitializeBus
    \/ GateInitializeStops
    \/ RdvInitialize
    \/ SetupProbe

SpecSetup == Init /\ [][NextSetup]_vars

\* the number of calls issued so far on each group of maps
GroupOps ==
    [ledger |-> ledgerOps, boarding |-> boardOps, seats |-> seatOps,
     stops |-> stopOps, transfers |-> xferOps, presence |-> presOps,
     flags |-> flagOps]

\* no call was ever issued on a group other than g
Alone(g) == \A h \in DOMAIN GroupOps \ {g} : GroupOps[h] = 0

\* The three managers side by side. The groups of maps share nothing (the
\* stop signal is read by the monitors of ConditionSyncManager only), so a
\* run exercises one group and leaves the others as initialize() made them
NextManagers ==
    \/ Alone("ledger") /\ ~stop_signal /\ NextLedger
    \/ Alone("boarding") /\ ~stop_signal /\ NextBoarding
    \/ Alone("seats") /\ ~stop_signal /\ NextSeats
    \/ Alone("stops") /\ ~stop_signal /\ NextStops
    \/ Alone("transfers") /\ NextTransfers
    \/ Alone("presence") /\ NextPresence
    \/ Alone("flags") /\ NextFlags

SpecManagers == Init /\ [][NextManagers]_vars

\* MutexSyncManager as a whole: ledger calls and boarding calls interleaved,
\* MaxMutexOps calls in all
MaxMutexOps == 2

NextMutex ==
    \/ NextLedger /\ ledgerOps' + boardOps' <= MaxMutexOps
    \/ NextBoarding /\ ledgerOps' + boardOps' <= MaxMutexOps

SpecMutex == Init /\ [][NextMutex]_vars

\* the steps of a started ledger call
LedgerProgress(t) ==
    \/ LedgerAcquire(t)
    \/ LedgerCheck(t)
    \/ LedgerWrite(t)
    \/ LedgerRelease(t)
    \/ LedgerReturn(t)

\* the steps of a started board_passengers / alight_passengers
BoardingProgress(t) ==
    \/ BoardPassengersAcquire(t)
    \/ BoardPassengersCheck(t)
    \/ BoardPassengersPay(t)
    \/ BoardPassengersCard(t)
    \/ BoardPassengersCardRelease(t)
    \/ BoardPassengersMove(t)
    \/ AlightPassengersCheck(t)
    \/ AlightPassengersMove(t)
    \/ BoardPassengersRelease(t)
    \/ BoardPassengersReturn(t)

\* MutexSyncManager with every started call scheduled again and again
FairMutex ==
    /\ SpecMutex
    /\ \A t \in LedgerThreads : WF_vars(LedgerProgress(t))
    /\ \A t \in Workers : WF_vars(BoardingProgress(t))

(***************************************************************************)
(*                    Claims on MutexSyncManager                           *)
(***************************************************************************)

\* C1: with recharge_card, refund and pay_fare issued concurrently on one
\* account and no buy_monthly on it, the balance equals the initial balance
\* plus the accepted recharge/refund amounts minus the fares of the pay_fare
\* calls that returned True (no lost update), and it is never negative.
C1_NoLostUpdate ==
    \A p \in KnownPassengers :
        passes[p] = 0 => /\ card_balances[p] = expected[p]
                         /\ card_balances[p] >= 0

\* two threads contend for one account: one has paid and still holds the
\* lock, the other waits for it with a recharge
C1_Witness ==
    \E p \in KnownPassengers, t, u \in LedgerThreads :
        /\ passes[p] = 0
        /\ lthr[t].pc = "unlock" /\ lthr[t].op = "pay_fare" /\ lthr[t].pid = p
        /\ lthr[t].result
        /\ lthr[u].pc = "lock" /\ lthr[u].op = "recharge_card" /\ lthr[u].pid = p
        /\ ledgerOps = MaxLedgerOps

\* C2: whatever mix of pay_fare, recharge_card, refund and buy_monthly two
\* threads run on an account that starts non-negative, the balance is never
\* negative.
C2_NeverNegative == \A p \in KnownPassengers : card_balances[p] >= 0

\* C3: pay_fare on a known passenger with balance b and amount a returns
\* True leaving b - a when b >= a, and returns False leaving b when b < a
\* (observed at the end of the critical section, b being the balance read
\* under the lock).
C3_PayFare ==
    \A t \in LedgerThreads :
        (lthr[t].pc = "unlock" /\ lthr[t].op = "pay_fare") =>
            LET b == lthr[t].seen
                a == lthr[t].amount
                p == lthr[t].pid
            IN /\ b >= a => (lthr[t].result /\ card_balances[p] = b - a)
               /\ b < a => (~lthr[t].result /\ card_balances[p] = b)

\* the scenario of the specification: the balance was 3.00$ (6), a recharge
\* of 1.00$ made it 4.00$ (8), and pay_fare(3.50$) has just left 0.50$ (1)
C3_Witness ==
    \E t \in LedgerThreads, p \in KnownPassengers :
        /\ lthr[t].pc = "unlock" /\ lthr[t].op = "pay_fare" /\ lthr[t].pid = p
        /\ lthr[t].amount = Fare /\ lthr[t].seen = 8 /\ lthr[t].result
        /\ card_balances[p] = 1 /\ passes[p] = 0
        /\ ledgerOps = MaxLedgerOps

C18_RechargeRefund ==
    /\ [](\A t \in LedgerThreads :
            lthr[t].op \in {"recharge_card", "refund"} =>
                /\ lthr[t].amount <= 0 => (lthr[t].pc = "ret" /\ ~lthr[t].result)
                /\ lthr[t].pc = "ret" =>
                      \A p \in KnownPassengers : card_locks[p] /= t
                /\ (lthr[t].amount > 0 /\ lthr[t].pid \in KnownPassengers) =>
                      /\ lthr[t].pc /= "ret"
                      /\ lthr[t].pc = "unlock" =>
                            /\ lthr[t].result
                            /\ card_balances[lthr[t].pid] =
                                   lthr[t].seen + lthr[t].amount)
    /\ [][\A t \in LedgerThreads :
            (lthr[t].pc = "idle" /\ lthr'[t].pc = "ret") =>
                UNCHANGED <<card_balances, card_locks>>]_vars

\* a refund of 0$ on a known account was refused while a recharge of 1$ on
\* the same account is about to return True
C18_Witness ==
    \E t, u \in LedgerThreads :
        /\ lthr[t].pc = "ret" /\ lthr[t].op = "refund" /\ lthr[t].amount = 0
        /\ lthr[t].pid \in KnownPassengers
        /\ lthr[u].pc = "unlock" /\ lthr[u].op = "recharge_card"
        /\ lthr[u].pid = lthr[t].pid /\ lthr[u].amount > 0 /\ lthr[u].result

\* C15: whatever the interleaving of board_passengers calls, from one stop or
\* from two stops onto the same bus, the bus never carries more passengers
\* than its capacity
C15_BusCapacity ==
    \A b \in DOMAIN bus_passenger_list :
        Len(bus_passenger_list[b]) <= RideCapacity

\* the passengers of a list
Members(list) == {list[i] : i \in 1..Len(list)}

\* thread t, running operation op, takes a step
WorkerStep(t, op) == wthr[t].op = op /\ wthr'[t] /= wthr[t]

\* C27: a board_passengers that is not rejected moves to the bus exactly the
\* passengers of its snapshot whose pay_fare succeeded, leaves the others at
\* the stop, and returns True exactly when it moved somebody
C27_BoardingMoves ==
    /\ [](\A t \in Workers :
            wthr[t].op = "board_passengers" =>
                /\ wthr[t].moved \subseteq Members(wthr[t].snapshot)
                /\ wthr[t].pc = "move" => wthr[t].paid
                /\ (wthr[t].pc = "unlock" /\ ~wthr[t].rejected) =>
                      /\ wthr[t].result <=> wthr[t].moved /= {}
                      /\ \A p \in Members(wthr[t].snapshot) :
                            p \in wthr[t].moved <=>
                               p \notin Members(stop_passenger_list[wthr[t].stop]))
    /\ [][\A t \in Workers :
            WorkerStep(t, "board_passengers") =>
                /\ wthr[t].pc = "card" =>
                      /\ wthr'[t].paid <=> card_balances[wthr[t].cur] >= Fare
                      /\ card_balances'[wthr[t].cur] =
                            card_balances[wthr[t].cur]
                               - (IF wthr'[t].paid THEN Fare ELSE 0)
                /\ wthr[t].pc = "carddone" =>
                      (wthr'[t].pc = "move" <=> wthr[t].paid)
                /\ wthr[t].pc = "move" =>
                      /\ wthr'[t].moved = wthr[t].moved \cup {wthr[t].cur}
                      /\ bus_passenger_list'[TheBus] =
                            Append(bus_passenger_list[TheBus], wthr[t].cur)
                /\ wthr[t].pc /= "move" =>
                      UNCHANGED <<bus_passenger_list, stop_passenger_list>>
                /\ wthr[t].pc \notin {"move", "unlock"} =>
                      wthr'[t].moved = wthr[t].moved]_vars

\* a board_passengers returns True after moving one passenger who paid and
\* leaving at the stop one who could not pay
C27_Witness ==
    \E t \in Workers :
        /\ wthr[t].op = "board_passengers" /\ wthr[t].pc = "unlock"
        /\ wthr[t].result
        /\ wthr[t].moved /= {}
        /\ Members(wthr[t].snapshot) \ wthr[t].moved /= {}

\* C28: when the bus has no room for everybody waiting at the stop,
\* board_passengers returns False, deducts no fare and changes neither list
C28_BoardingRejected ==
    /\ [](\A t \in Workers :
            (wthr[t].op = "board_passengers" /\ wthr[t].rejected) =>
                /\ wthr[t].pc = "unlock"
                /\ ~wthr[t].result
                /\ wthr[t].moved = {})
    /\ [][\A t \in Workers :
            WorkerStep(t, "board_passengers") =>
                /\ wthr[t].pc = "check" =>
                      (wthr'[t].rejected <=>
                          Len(bus_passenger_list[TheBus])
                            + Len(stop_passenger_list[wthr[t].stop]) > RideCapacity)
                /\ (wthr[t].rejected \/ wthr'[t].rejected) =>
                      UNCHANGED <<card_balances, bus_passenger_list,
                                  stop_passenger_list>>]_vars

\* a board_passengers has been rejected although the bus had a free seat
\* and somebody who can pay was waiting
C28_Witness ==
    \E t \in Workers :
        /\ wthr[t].op = "board_passengers" /\ wthr[t].rejected
        /\ Len(bus_passenger_list[TheBus]) < RideCapacity
        /\ \E p \in Members(stop_passenger_list[wthr[t].stop]) :
              card_balances[p] >= Fare

\* C29: alight_passengers returns False and changes no list when the stop
\* has no room for everybody aboard; otherwise it moves every passenger of
\* the bus (of its snapshot) to the stop, changes no balance, and returns
\* True exactly when the bus had a passenger
C29_AlightingMoves ==
    /\ [](\A t \in Workers :
            (wthr[t].op = "alight_passengers" /\ wthr[t].pc = "unlock") =>
                /\ ~wthr[t].raised
                /\ wthr[t].rejected => ~wthr[t].result /\ wthr[t].moved = {}
                /\ ~wthr[t].rejected =>
                      /\ wthr[t].moved = Members(wthr[t].snapshot)
                      /\ wthr[t].result <=> wthr[t].snapshot /= <<>>)
    /\ [][\A t \in Workers :
            WorkerStep(t, "alight_passengers") =>
                /\ UNCHANGED card_balances
                /\ (wthr[t].rejected \/ wthr'[t].rejected) =>
                      UNCHANGED <<bus_passenger_list, stop_passenger_list>>]_vars

\* the account locks held by an owner
HeldCards(owner) == {p \in DOMAIN card_locks : card_locks[p] = owner}

\* the stop locks held by a worker
HeldStops(t) == {s \in DOMAIN ledger_stop_locks : ledger_stop_locks[s] = t}

\* C30: the ledger is deadlock-free.  A thread holds at most one account
\* lock; an account lock is taken by a worker only under its stop lock (stop
\* lock first, account lock second) and no stop lock is taken by a thread
\* that holds an account lock; every started pay_fare, recharge_card,
\* refund, buy_monthly, board_passengers and alight_passengers eventually
\* ends with its locks released
C30_DeadlockFree ==
    /\ [](\A t \in LedgerThreads :
            /\ Cardinality(HeldCards(t)) <= 1
            /\ lthr[t].pc = "idle" => HeldCards(t) = {})
    /\ [](\A t \in Workers :
            /\ Cardinality(HeldCards(WorkerOwner(t))) <= 1
            /\ HeldCards(WorkerOwner(t)) /= {} => HeldStops(t) = {wthr[t].stop}
            /\ wthr[t].pc = "idle" =>
                  HeldCards(WorkerOwner(t)) = {} /\ HeldStops(t) = {})
    /\ [][\A t \in Workers :
            HeldStops(t)' /= HeldStops(t) /\ HeldStops(t)' /= {} =>
                HeldCards(WorkerOwner(t)) = {}]_vars
    /\ \A t \in LedgerThreads : (lthr[t].pc /= "idle") ~> (lthr[t].pc = "idle")
    /\ \A t \in Workers : (wthr[t].pc /= "idle") ~> (wthr[t].pc = "idle")

\* a board_passengers holds its stop lock and one account lock while a
\* ledger call waits for that same account lock
C30_Witness ==
    \E t \in Workers, u \in LedgerThreads :
        /\ wthr[t].op = "board_passengers"
        /\ HeldStops(t) = {wthr[t].stop}
        /\ HeldCards(WorkerOwner(t)) = {wthr[t].cur}
        /\ lthr[u].pc = "lock" /\ lthr[u].pid = wthr[t].cur

\* how often passenger p is in the list of some stop or of the bus
Copies(p) ==
    Cardinality({s \in LedgerStops : list_has(stop_passenger_list[s], p)})
      + (IF list_has(bus_passenger_list[TheBus], p) THEN 1 ELSE 0)

\* no list holds a passenger twice
NoRepeats(list) == Cardinality(Members(list)) = Len(list)

\* C38: passenger conservation.  Whenever no board_passengers or
\* alight_passengers is in progress, every passenger is in exactly one of
\* the lists (a stop's or the bus's), once; for a stop that alone has
\* exchanged passengers with the bus, the passengers of the stop and of the
\* bus together are those the stop started with
C38_Conservation ==
    (\A t \in Workers : wthr[t].pc = "idle") =>
        /\ \A p \in KnownPassengers : Copies(p) = 1
        /\ NoRepeats(bus_passenger_list[TheBus])
        /\ \A s \in LedgerStops :
              /\ NoRepeats(stop_passenger_list[s])
              /\ (\A r \in LedgerStops \ {s} :
                     stop_passenger_list[r] = WaitingAt(r)) =>
                    Members(stop_passenger_list[s])
                       \cup Members(bus_passenger_list[TheBus])
                          = Members(WaitingAt(s))

\* no call is in progress; passenger 3 has paid, boarded at stop 1 and
\* alighted there again, behind passenger 1 who could not pay
C38_Witness ==
    /\ \A t \in Workers : wthr[t].pc = "idle"
    /\ card_balances[3] = 0
    /\ stop_passenger_list[2] = WaitingAt(2)
    /\ bus_passenger_list[TheBus] = <<>>
    /\ stop_passenger_list[1] = <<1, 3>>

\* C39: the fare is charged exactly once per boarding.  A board_passengers
\* changes a balance only when a pay_fare of its loop succeeds, and then
\* takes exactly the fare from the balance of the passenger it is handling,
\* who is of its snapshot; it charges nobody twice; at its end the
\* passengers charged are the passengers moved, and a rejected call has
\* charged nobody
C39_FareOnce ==
    /\ [](\A t \in Workers :
            wthr[t].op = "board_passengers" =>
                /\ NoRepeats(wthr[t].charges)
                /\ Members(wthr[t].charges) \subseteq Members(wthr[t].snapshot)
                /\ wthr[t].rejected => wthr[t].charges = <<>>
                /\ wthr[t].pc = "unlock" => Members(wthr[t].charges) = wthr[t].moved)
    /\ [][\A t \in Workers :
            WorkerStep(t, "board_passengers") =>
                IF wthr'[t].op = "board_passengers"
                     /\ wthr'[t].charges /= wthr[t].charges
                  THEN /\ wthr'[t].charges = Append(wthr[t].charges, wthr[t].cur)
                       /\ card_balances' =
                             [card_balances EXCEPT ![wthr[t].cur] = @ - Fare]
                  ELSE UNCHANGED card_balances]_vars

\* a board_passengers at stop 1 ends having charged and moved passenger 3
\* only: passenger 1, who cannot pay, and the passengers of stop 2 keep
\* their balances
C39_Witness ==
    \E t \in Workers :
        /\ wthr[t].op = "board_passengers" /\ wthr[t].pc = "unlock"
        /\ wthr[t].stop = 1
        /\ wthr[t].charges = <<3>>
        /\ card_balances = [p \in KnownPassengers |->
                               IF p = 3 THEN 0 ELSE IF p = 1 THEN 6 ELSE 7]

(***************************************************************************)
(*                  Claims on SemaphoreSyncManager                         *)
(***************************************************************************)

\* C4: for a bus of capacity N, as long as alight_passenger is only called
\* for seats actually held, the seats held never exceed N and the free
\* permits are exactly N minus the seats held (so N boards succeed, and one
\* alight allows exactly one more); a board_passenger that failed by timeout
\* found the bus full.
C4_SeatLimit ==
    \A b \in KnownBuses :
        strayAlights[b] = 0 =>
            /\ Holders(b) <= BusCapacity
            /\ bus_capacity_semaphores[b] = BusCapacity - Holders(b)
            /\ \A t \in SeatThreads :
                 (sthr[t].pc = "ret" /\ sthr[t].op = "board" /\ sthr[t].bus = b
                    /\ ~sthr[t].result) => sthr[t].heldAtFail = BusCapacity

\* the bus was filled, a further board timed out, one holder alighted and a
\* further board has just succeeded, filling the bus again
C4_Witness ==
    \E b \in KnownBuses, t, u \in SeatThreads :
        /\ strayAlights[b] = 0 /\ alights[b] = 1
        /\ Holders(b) = BusCapacity /\ bus_capacity_semaphores[b] = 0
        /\ sthr[u].pc = "ret" /\ sthr[u].op = "board" /\ sthr[u].bus = b
        /\ ~sthr[u].result /\ sthr[u].heldAtFail = BusCapacity
        /\ sthr[t].pc = "ret" /\ sthr[t].op = "board" /\ sthr[t].bus = b
        /\ sthr[t].result

\* C5: at every stop, as long as buses depart only after their own
\* admission, the buses admitted and not yet departed number at most the
\* ceiling 2 (counting those holding a slot whose call is about to return).
C5_StopCeiling ==
    \A s \in KnownStops :
        strayDeparts[s] = 0 => Hosted(s) + Admitting(s) <= StopLimit

\* two buses are docked at a stop and a third is queued, finding no slot
C5_Witness ==
    \E s \in KnownStops, t \in BusThreads :
        /\ strayDeparts[s] = 0 /\ Hosted(s) = StopLimit
        /\ stop_semaphores[s] = 0
        /\ bthr[t].pc = "head" /\ bthr[t].stop = s
        /\ is_head(stop_queues[s], bthr[t].bus)

\* C6: FIFO admission at a stop: entries are admitted in the order they
\* were appended, no entry still queued was appended before an admitted
\* one, and an entry is only consumed by the admission of its own bus.
C6_Fifo ==
    \A s \in KnownStops :
        /\ \A i, j \in 1 .. Len(admitLog[s]) :
             i < j => admitLog[s][i][1] < admitLog[s][j][1]
        /\ \A i \in 1 .. Len(tickets[s]), k \in 1 .. Len(admitLog[s]) :
             admitLog[s][k][1] < tickets[s][i]
        /\ \A k \in 1 .. Len(admitLog[s]) : admitLog[s][k][2] = admitLog[s][k][3]

\* three different buses queued at one stop; the first two were admitted in
\* enqueue order while the third, appended last, is still queued
C6_Witness ==
    \E s \in KnownStops :
        /\ Len(admitLog[s]) = 2
        /\ admitLog[s][1][1] = 1 /\ admitLog[s][2][1] = 2
        /\ admitLog[s][1][3] /= admitLog[s][2][3]
        /\ tickets[s] = <<3>>
        /\ stop_queues[s][1] \notin {admitLog[s][1][3], admitLog[s][2][3]}
        /\ timedOut[s] = 0

\* C7: stop ceiling 2, no departure yet: the free slots are exactly 2 minus
\* the admissions, so the first two arrivals find a slot and a third is never
\* admitted before a departure; and as long as no arrival timed out, the
\* head of the queue always has a caller polling for it (it is not stuck).
C7_ThirdWaits ==
    \A s \in KnownStops :
        departs[s] = 0 =>
            /\ Hosted(s) <= StopLimit
            /\ Len(admitLog[s]) = Hosted(s)
            /\ stop_semaphores[s] = StopLimit - Hosted(s) - Admitting(s)
            /\ (timedOut[s] = 0 /\ stop_queues[s] /= <<>>) =>
                  \E t \in BusThreads :
                      /\ bthr[t].pc \in {"poll", "head", "pop"}
                      /\ bthr[t].stop = s
                      /\ bthr[t].bus = Head(stop_queues[s])

\* three buses arrived at an empty stop, none timed out; two were admitted,
\* one of them departed, and now the third is admitted too
C7_Witness ==
    \E s \in KnownStops :
        /\ enqueued[s] = 3 /\ timedOut[s] = 0
        /\ departs[s] = 1 /\ strayDeparts[s] = 0
        /\ Len(admitLog[s]) = 3
        /\ Cardinality({admitLog[s][k][3] : k \in 1 .. 3}) = 3
        /\ Hosted(s) = StopLimit

\* C16: cleanup() called after initialize(), whether or not run_scenarios
\* was ever called, completes and leaves every map of the manager empty
C16_CleanupCompletes ==
    cleanup_outcome /= "none" =>
        /\ cleanup_outcome = "done"
        /\ DOMAIN bus_capacity_semaphores = {}
        /\ DOMAIN stop_semaphores = {}
        /\ DOMAIN stop_queues = {}
        /\ DOMAIN stop_locks = {}

\* thread t, running bus_arrive_at_stop on a known stop, leaves position pc
ArriveStep(t, pc) ==
    /\ bthr[t].op = "arrive" /\ bthr[t].pc = pc /\ bthr'[t].pc /= pc

\* C31: only the head of the queue takes a slot.  A slot of a stop is taken
\* only by a bus_arrive_at_stop holding the stop's queue lock whose bus is
\* the first element of the queue; the lock is kept until the dequeue, which
\* removes that first element, and nothing else touches the queue meanwhile
C31_HeadOnly ==
    /\ [](\A t \in BusThreads :
            bthr[t].pc \in {"head", "pop"} =>
                /\ stop_locks[bthr[t].stop] = t
                /\ bthr[t].pc = "pop" => is_head(stop_queues[bthr[t].stop], bthr[t].bus))
    /\ [][\A s \in KnownStops :
            /\ stop_semaphores'[s] < stop_semaphores[s] =>
                  \E t \in BusThreads :
                      /\ ArriveStep(t, "head") /\ bthr[t].stop = s
                      /\ bthr'[t].pc = "pop"
                      /\ stop_queues[s] /= <<>>
                      /\ stop_queues[s][1] = bthr[t].bus
                      /\ stop_semaphores'[s] = stop_semaphores[s] - 1
            /\ (stop_locks[s] /= NoThread /\ stop_queues'[s] /= stop_queues[s]) =>
                  \E t \in BusThreads :
                      /\ ArriveStep(t, "pop") /\ bthr[t].stop = s
                      /\ stop_locks[s] = t
                      /\ bthr'[t].result
                      /\ stop_queues'[s] = Tail(stop_queues[s])]_vars

\* a bus at the head has taken a slot; another slot is free and a different
\* bus, queued behind, has a call polling for it
C31_Witness ==
    \E t, u \in BusThreads :
        /\ bthr[t].pc = "pop" /\ bthr[u].pc = "poll"
        /\ bthr[u].stop = bthr[t].stop /\ bthr[u].bus /= bthr[t].bus
        /\ stop_semaphores[bthr[t].stop] > 0
        /\ Len(stop_queues[bthr[t].stop]) = 2

\* C32: a bus_arrive_at_stop that times out takes no slot, removes exactly
\* one occurrence of its bus from the queue, leaving the other entries in
\* their order, and returns False
C32_TimeoutRemovesOne ==
    [][\A t \in BusThreads :
          /\ (ArriveStep(t, "poll") /\ bthr'[t].pc = "rm") =>
                UNCHANGED <<stop_semaphores, stop_queues>>
          /\ ArriveStep(t, "rm") =>
                LET q == stop_queues[bthr[t].stop]
                    r == stop_queues'[bthr[t].stop]
                IN /\ UNCHANGED stop_semaphores
                   /\ ~bthr'[t].result
                   /\ \E i \in 1 .. Len(q) :
                         /\ q[i] = bthr[t].bus
                         /\ Len(r) = Len(q) - 1
                         /\ \A k \in 1 .. Len(r) :
                               r[k] = IF k < i THEN q[k] ELSE q[k + 1]]_vars

\* a timed-out call found its bus queued twice, behind another bus, removed
\* one occurrence and returns False; the other occurrence is still queued
C32_Witness ==
    \E t \in BusThreads :
        /\ bthr[t].op = "arrive" /\ bthr[t].pc = "ret" /\ ~bthr[t].result
        /\ bthr[t].stop \in KnownStops
        /\ bthr[t].queuedBefore = 2
        /\ Len(stop_queues[bthr[t].stop]) = 2
        /\ stop_queues[bthr[t].stop][1] /= bthr[t].bus
        /\ Occurrences(stop_queues[bthr[t].stop], bthr[t].bus) = 1

\* the bus_arrive_at_stop calls for (b, s) that have enqueued and are
\* neither admitted nor timed out and removed
Enqueued(b, s) ==
    {t \in BusThreads : /\ bthr[t].op = "arrive"
                        /\ bthr[t].bus = b /\ bthr[t].stop = s
                        /\ bthr[t].pc \in {"poll", "head", "pop", "rm"}}

\* C40: a bus occurs in a stop's queue as many times as there are
\* bus_arrive_at_stop calls for that bus and stop that have enqueued and
\* are not yet admitted or timed out; with no such call in progress every
\* queue is empty
C40_QueueBookkeeping ==
    /\ \A s \in KnownStops, b \in ArrivingBuses :
          Occurrences(stop_queues[s], b) = Cardinality(Enqueued(b, s))
    /\ (\A t \in BusThreads : bthr[t].op /= "arrive" \/ bthr[t].pc = "docked") =>
          \A s \in KnownStops : stop_queues[s] = <<>>

\* one bus is queued twice at a stop by two concurrent calls
C40_Witness ==
    \E s \in KnownStops, b \in ArrivingBuses :
        /\ Occurrences(stop_queues[s], b) = 2
        /\ Cardinality(Enqueued(b, s)) = 2

\* C35: initialization is all-or-nothing: whenever initialize() has returned
\* False the manager's maps are empty, and every operation called after it
\* returns False
C35_AllOrNothing ==
    setup.result = "false" =>
        /\ DOMAIN setup.bus_map = {}
        /\ DOMAIN setup.stop_map = {}
        /\ setup.probe /= "true"

C34_SlotsBounded ==
    \A s \in KnownStops : stop_semaphores[s] <= StopLimit

\* thread t is inside bus_arrive_at_stop
Arriving(t) ==
    bthr[t].op = "arrive" /\ bthr[t].pc \in {"enq", "poll", "head", "pop", "rm"}

\* C36: no livelock and no permanent blocking at a stop queue.  Every
\* bus_arrive_at_stop eventually returns; the head of a queue always has a
\* call in progress for its bus, so no timed-out bus stays queued; and when
\* a slot is free and the queue is not empty, the entry at the head
\* eventually leaves the queue
C36_NoPermanentBlocking ==
    /\ [](\A s \in KnownStops :
            stop_queues[s] /= <<>> => Enqueued(Head(stop_queues[s]), s) /= {})
    /\ \A t \in BusThreads : Arriving(t) ~> ~Arriving(t)
    /\ \A s \in KnownStops, k \in 1 .. MaxQueueOps :
          (stop_semaphores[s] > 0 /\ tickets[s] /= <<>> /\ Head(tickets[s]) = k)
             ~> (\A i \in 1 .. Len(tickets[s]) : tickets[s][i] /= k)

\* a slot is free and a bus is at the head of the queue while its call has
\* timed out and is about to remove it, another bus being queued behind
C36_Witness ==
    \E s \in KnownStops, t \in BusThreads :
        /\ stop_semaphores[s] > 0
        /\ Len(stop_queues[s]) >= 2
        /\ bthr[t].pc = "rm" /\ bthr[t].stop = s
        /\ Head(stop_queues[s]) = bthr[t].bus
        /\ stop_queues[s][2] /= bthr[t].bus

(***************************************************************************)
(*           Claims on ConditionSyncManager: transfers                     *)
(***************************************************************************)

\* C8: at most one pending transfer per passenger: the start_transfer calls
\* that returned True and are not yet completed number 1 when the passenger
\* has a pending transfer and 0 otherwise (of concurrent starts one
\* succeeds); a start_transfer that finds a transfer pending returns False
\* and leaves the recorded pairs as they were, a successful one records its
\* own pair.
C8_SingleTransfer ==
    /\ \A p \in TransferPassengers :
         opened[p] = IF p \in DOMAIN transfers_in_progress THEN 1 ELSE 0
    /\ \A t \in XferThreads :
         (xthr[t].pc = "unlock" /\ xthr[t].op = "start") =>
            IF xthr[t].pid \in DOMAIN xthr[t].seen
              THEN ~xthr[t].result /\ transfers_in_progress = xthr[t].seen
              ELSE /\ xthr[t].result
                   /\ xthr[t].pid \in DOMAIN transfers_in_progress
                   /\ transfers_in_progress[xthr[t].pid] = <<xthr[t].from, xthr[t].to>>

\* a second start_transfer for a passenger, with another pair, has just
\* been refused while the first transfer is pending
C8_Witness ==
    \E t \in XferThreads :
        /\ xthr[t].pc = "unlock" /\ xthr[t].op = "start" /\ ~xthr[t].result
        /\ xthr[t].pid \in DOMAIN transfers_in_progress
        /\ transfers_in_progress[xthr[t].pid] /= <<xthr[t].from, xthr[t].to>>
        /\ opened[xthr[t].pid] = 1

\* C9: complete_transfer(p, f, t) returns True and removes p's pending
\* transfer exactly when a transfer is pending for p with the pair (f, t);
\* otherwise (none pending, other source, other destination, swapped pair,
\* unknown bus) it returns False and the map of pending transfers is
\* unchanged.
C9_CompleteTransfer ==
    \A t \in XferThreads :
        /\ (xthr[t].pc = "unlock" /\ xthr[t].op = "complete") =>
              LET p == xthr[t].pid
                  was == xthr[t].seen
                  match == p \in DOMAIN was /\ was[p] = <<xthr[t].from, xthr[t].to>>
              IN /\ xthr[t].result <=> match
                 /\ match => /\ p \notin DOMAIN transfers_in_progress
                             /\ \A q \in DOMAIN was \ {p} :
                                  /\ q \in DOMAIN transfers_in_progress
                                  /\ transfers_in_progress[q] = was[q]
                             /\ DOMAIN transfers_in_progress \subseteq DOMAIN was
                 /\ ~match => transfers_in_progress = was
        /\ (xthr[t].pc = "ret" /\ xthr[t].op = "complete") =>
              /\ ~xthr[t].result
              /\ ~(/\ xthr[t].pid \in DOMAIN transfers_in_progress
                   /\ transfers_in_progress[xthr[t].pid] = <<xthr[t].from, xthr[t].to>>)

\* complete_transfer with the pair swapped has just been refused, the
\* pending transfer still recorded
C9_Witness ==
    \E t \in XferThreads :
        /\ xthr[t].pc = "unlock" /\ xthr[t].op = "complete" /\ ~xthr[t].result
        /\ xthr[t].from /= xthr[t].to
        /\ xthr[t].pid \in DOMAIN transfers_in_progress
        /\ transfers_in_progress[xthr[t].pid] = <<xthr[t].to, xthr[t].from>>

\* C10: wait_for_transfer_completion(bus) on a known bus returns True exactly
\* when, as it returns, no pending transfer has bus as source or destination;
\* when none has at the moment the call enters the monitor it returns True
\* without waiting, whatever the timeout.
C10_WaitForTransfers ==
    \A t \in XferThreads :
        (xthr[t].pc = "unlock" /\ xthr[t].op = "wait") =>
            LET names(map) == \E p \in DOMAIN map :
                                 xthr[t].bus \in {map[p][1], map[p][2]}
            IN /\ xthr[t].result <=> ~names(transfers_in_progress)
               /\ ~names(xthr[t].seen) => (xthr[t].result /\ ~xthr[t].waited)

\* a transfer is pending between other buses; the wait of an uninvolved bus
\* with timeout 0 has returned True without waiting
C10_Witness ==
    \E t \in XferThreads :
        /\ xthr[t].pc = "unlock" /\ xthr[t].op = "wait"
        /\ xthr[t].result /\ ~xthr[t].waited /\ xthr[t].timeout = 0
        /\ DOMAIN transfers_in_progress /= {}
        /\ \E p \in DOMAIN transfers_in_progress :
             transfers_in_progress[p][1] /= xthr[t].bus

(***************************************************************************)
(*           Claims on ConditionSyncManager: bus monitors                  *)
(***************************************************************************)

\* C11: a start_boarding that tests the flag of a bus after a start_boarding
\* of that bus returned True, and before any complete_boarding of it, returns
\* False.
C11_BoardingSingleFlight ==
    \A t \in FlagThreads :
        (/\ fthr[t].op = "start_boarding"
         /\ fthr[t].pc \in {"write", "unlock"}
         /\ fthr[t].active)
            => (fthr[t].pc = "unlock" /\ ~fthr[t].result)

\* C12: start_alighting goes on only when alighting_complete[bus] is False
\* (as on a fresh bus) and returns False when it is True.
C12_AlightingPolarity ==
    \A t \in FlagThreads :
        fthr[t].op = "start_alighting" =>
            /\ fthr[t].pc = "write" => ~alighting_complete[fthr[t].bus]
            /\ (fthr[t].pc = "unlock" /\ ~fthr[t].result) =>
                  alighting_complete[fthr[t].bus]

\* C13: a start_alighting that tests the flag of a bus after a
\* start_alighting of that bus returned True, and before any
\* complete_alighting of it, returns False.
C13_AlightingSingleFlight ==
    \A t \in FlagThreads :
        (/\ fthr[t].op = "start_alighting"
         /\ fthr[t].pc \in {"write", "unlock"}
         /\ fthr[t].active)
            => (fthr[t].pc = "unlock" /\ ~fthr[t].result)

\* alighting was completed, started again, and a second start_alighting has
\* just been refused
C13_Witness ==
    \E t \in FlagThreads :
        /\ fthr[t].op = "start_alighting" /\ fthr[t].pc = "unlock"
        /\ fthr[t].active /\ ~fthr[t].result
        /\ alighting_started[fthr[t].bus]
        /\ flagOps = MaxFlagOps

\* the step in which thread t leaves pc "from" as operation op
FlagStep(t, ops, from) ==
    fthr[t].op \in ops /\ fthr[t].pc = from /\ fthr'[t].pc /= from

\* C24: start_boarding on a known bus returns True exactly when
\* boarding_complete[bus] is False at its test, and then the flag is False;
\* when the flag is True it returns False and leaves the flag as it is
C24_StartBoarding ==
    /\ [](\A t \in FlagThreads :
            fthr[t].op = "start_boarding" =>
                /\ fthr[t].pc = "write" => ~boarding_complete[fthr[t].bus]
                /\ fthr[t].pc = "unlock" =>
                      (fthr[t].result <=> ~boarding_complete[fthr[t].bus]))
    /\ [][\A t \in FlagThreads :
            FlagStep(t, {"start_boarding"}, "check") =>
                /\ UNCHANGED <<boarding_complete, alighting_complete>>
                /\ boarding_complete[fthr[t].bus] <=>
                      (fthr'[t].pc = "unlock" /\ ~fthr'[t].result)
                /\ ~boarding_complete[fthr[t].bus] <=> fthr'[t].pc = "write"]_vars

\* boarding was completed and a start_boarding has just been refused
C24_Witness ==
    \E t \in FlagThreads :
        /\ fthr[t].op = "start_boarding" /\ fthr[t].pc = "unlock"
        /\ ~fthr[t].result
        /\ boarding_complete[fthr[t].bus]

\* C25: wait_for_boarding_completion / wait_for_alighting_completion return
\* True exactly when the flag is True as they return, the monitor still
\* held; with the flag set at the loop test they return without waiting
C25_WaitResult ==
    /\ [](\A t \in FlagThreads :
            (fthr[t].op \in FlagWaitOps /\ fthr[t].pc = "unlock") =>
                (fthr[t].result <=> flag_of(fthr[t].op, fthr[t].bus)))
    /\ [][\A t \in FlagThreads :
            (FlagStep(t, FlagWaitOps, "loop") /\ flag_of(fthr[t].op, fthr[t].bus)) =>
                fthr'[t].pc = "unlock" /\ fthr'[t].result]_vars

\* a completion wait went into wait(), was woken by complete_* and returns
\* True
C25_Witness ==
    \E t \in FlagThreads :
        /\ fthr[t].op \in FlagWaitOps /\ fthr[t].pc = "unlock"
        /\ fthr[t].waited /\ fthr[t].wait_result
        /\ fthr[t].result

\* C26: complete_boarding / complete_alighting on a known bus return True
\* with the flag True; they change nothing but that flag, and nothing at all
\* when it is True already
C26_CompleteIdempotent ==
    /\ [](\A t \in FlagThreads :
            fthr[t].op \in CompleteOps =>
                /\ fthr[t].bus \in DOMAIN bus_cond_locks => fthr[t].pc /= "ret"
                /\ fthr[t].pc = "unlock" =>
                      fthr[t].result /\ flag_of(fthr[t].op, fthr[t].bus))
    /\ [][\A t \in FlagThreads :
            FlagStep(t, CompleteOps, "write") =>
                /\ fthr[t].op = "complete_boarding" =>
                      /\ boarding_complete' =
                            [boarding_complete EXCEPT ![fthr[t].bus] = TRUE]
                      /\ UNCHANGED alighting_complete
                /\ fthr[t].op = "complete_alighting" =>
                      /\ alighting_complete' =
                            [alighting_complete EXCEPT ![fthr[t].bus] = TRUE]
                      /\ UNCHANGED boarding_complete
                /\ flag_of(fthr[t].op, fthr[t].bus) =>
                      UNCHANGED <<boarding_complete, alighting_complete>>
                /\ UNCHANGED <<bus_cond_locks, bus_at_stop, transfers_in_progress,
                               stop_signal>>]_vars

\* a complete_* call has just run on a flag that was True already
C26_Witness ==
    \E t \in FlagThreads :
        /\ fthr[t].op \in CompleteOps /\ fthr[t].pc = "unlock"
        /\ fthr[t].before
        /\ fthr[t].result

\* C37: the boarding-complete flag of a bus is monotone: no step takes it
\* from True to False; while it is True a start_boarding of the bus returns
\* False and a wait_for_boarding_completion of the bus returns True;
\* complete_boarding leaves it True
C37_BoardingMonotone ==
    /\ [](\A t \in FlagThreads :
            (fthr[t].pc = "unlock" /\ boarding_complete[fthr[t].bus]) =>
                /\ fthr[t].op = "start_boarding" => ~fthr[t].result
                /\ fthr[t].op = "wait_for_boarding_completion" => fthr[t].result)
    /\ [](\A t \in FlagThreads :
            (fthr[t].pc = "unlock" /\ fthr[t].op = "complete_boarding") =>
                boarding_complete[fthr[t].bus])
    /\ [][\A b \in RdvBuses :
            boarding_complete[b] => boarding_complete'[b]]_vars

\* after a complete_boarding of the bus a start_boarding has been refused
\* and the flag is still True
C37_Witness ==
    \E t \in FlagThreads :
        /\ fthr[t].op = "start_boarding" /\ fthr[t].pc = "unlock"
        /\ ~fthr[t].result
        /\ boarding_complete[fthr[t].bus]

(***************************************************************************)
(*           Claims on ConditionSyncManager: stop monitors                 *)
(***************************************************************************)

\* C19: while no notify_bus_arrival has added a bus to a known stop and the
\* stop signal is not set, a wait_for_bus on that stop that leaves its loop
\* returns -1 and does so with its timeout elapsed.
C19_WaitForBusTimeout ==
    \A t \in PresThreads :
        (/\ pthr[t].op = "wait_for_bus" /\ pthr[t].pc = "unlock"
         /\ ~arrivals[pthr[t].stop]
         /\ ~stop_signal)
            => (pthr[t].found = NotFound /\ pthr[t].remaining = 0)

\* a wait_for_bus with a positive timeout went into wait(), timed out and
\* is returning -1; no bus ever arrived at its stop
C19_Witness ==
    \E t \in PresThreads :
        /\ pthr[t].op = "wait_for_bus" /\ pthr[t].pc = "unlock"
        /\ pthr[t].timeout > 0 /\ pthr[t].waited /\ ~pthr[t].wait_result
        /\ ~arrivals[pthr[t].stop] /\ ~stop_signal
        /\ pthr[t].found = NotFound

\* C21: a wait_for_bus that returns a bus returns one that is in the stop's
\* present-set at that moment (the monitor is still held); with a target,
\* 0 included, the result is the target or -1; without one it is a member of
\* the present-set
C21_ResultValid ==
    \A t \in PresThreads :
        (pthr[t].op = "wait_for_bus" /\ pthr[t].pc = "unlock") =>
            /\ pthr[t].found /= NotFound =>
                  pthr[t].found \in bus_at_stop[pthr[t].stop]
            /\ pthr[t].target /= NoTarget =>
                  pthr[t].found \in {pthr[t].target, NotFound}

\* the step in which thread t of notify_bus_arrival / notify_bus_departure
\* updates the present-set
NotifyStep(t) == pthr[t].pc = "write" /\ pthr'[t].pc = "unlock"

\* C22: on a known stop notify_bus_arrival returns True and makes the bus a
\* member of the stop's present-set, notify_bus_departure returns True and
\* makes it a non-member, present before or not; the present-sets of the
\* other stops stay as they are; on an unknown stop both return False and no
\* present-set changes
C22_NotifyEffect ==
    /\ [](\A t \in PresThreads :
            pthr[t].op \in {"notify_bus_arrival", "notify_bus_departure"} =>
                /\ pthr[t].pc = "unlock" =>
                      /\ pthr[t].result
                      /\ pthr[t].op = "notify_bus_arrival" =>
                            pthr[t].bus \in bus_at_stop[pthr[t].stop]
                      /\ pthr[t].op = "notify_bus_departure" =>
                            pthr[t].bus \notin bus_at_stop[pthr[t].stop]
                /\ pthr[t].pc = "ret" =>
                      ~pthr[t].result /\ pthr[t].stop \notin DOMAIN bus_at_stop)
    /\ [][IF \E t \in PresThreads : NotifyStep(t)
            THEN \A t \in PresThreads : NotifyStep(t) =>
                    /\ pthr[t].stop \in DOMAIN bus_at_stop
                    /\ \A s \in DOMAIN bus_at_stop \ {pthr[t].stop} :
                          bus_at_stop'[s] = bus_at_stop[s]
            ELSE UNCHANGED bus_at_stop]_vars

\* a notify_bus_departure of a bus that never arrived at the stop returns
\* True while another stop has a bus present
C22_Witness ==
    \E t \in PresThreads :
        /\ pthr[t].op = "notify_bus_departure" /\ pthr[t].pc = "unlock"
        /\ pthr[t].result
        /\ ~arrivals[pthr[t].stop]
        /\ \E s \in DOMAIN bus_at_stop \ {pthr[t].stop} : bus_at_stop[s] /= {}

\* C23: a wait_for_bus blocked on a stop when notify_bus_arrival(B, stop)
\* occurs, B not departing and the stop signal not being set, eventually
\* returns, and returns a bus, never -1: B if it targets B; also when its
\* timeout fires after the arrival
C23_NoMissedWakeup ==
    /\ [](\A t \in PresThreads :
            (pthr[t].op = "wait_for_bus" /\ pthr[t].pc = "unlock" /\ ~stop_signal) =>
                \A B \in pthr[t].arrived :
                    pthr[t].target \in {B, NoTarget} =>
                        /\ pthr[t].found /= NotFound
                        /\ pthr[t].target = B => pthr[t].found = B)
    /\ \A t \in PresThreads :
          (pthr[t].pc = "waiting") ~> (pthr[t].pc = "unlock")

(***************************************************************************)
(*           Claims on ConditionSyncManager: the stop signal               *)
(***************************************************************************)

coordinatorState ==
    <<card_locks, card_balances, ledger_stop_locks, bus_passenger_list,
      stop_passenger_list, bus_capacity_semaphores, stop_semaphores, stop_queues,
      stop_locks, transfer_lock, transfers_in_progress, stop_signal,
      stop_cond_locks, bus_at_stop, bus_cond_locks, boarding_complete,
      alighting_complete>>

\* a call in progress whose key (the identifier the operation looks up in
\* its map) is not in the map
LedgerUnknown(r) == r.pc /= "idle" /\ r.pid \notin DOMAIN card_locks
BoardingUnknown(r) == r.pc /= "idle" /\ r.stop \notin DOMAIN ledger_stop_locks
SeatUnknown(r) == r.pc /= "idle" /\ r.bus \notin DOMAIN bus_capacity_semaphores
StopUnknown(r) == r.pc /= "idle" /\ r.stop \notin DOMAIN stop_semaphores
XferUnknown(r) ==
    /\ r.pc /= "idle"
    /\ IF r.op = "wait"
         THEN r.bus \notin DOMAIN bus_cond_locks
         ELSE r.from \notin DOMAIN bus_cond_locks \/ r.to \notin DOMAIN bus_cond_locks
PresUnknown(r) == r.pc /= "idle" /\ r.stop \notin DOMAIN stop_cond_locks
FlagUnknown(r) == r.pc /= "idle" /\ r.bus \notin DOMAIN bus_cond_locks

\* such a call is on its early return, with False (wait_for_bus: with -1)
UnknownKeyFails ==
    /\ \A t \in LedgerThreads :
          LedgerUnknown(lthr[t]) => lthr[t].pc = "ret" /\ ~lthr[t].result
    /\ \A t \in Workers :
          BoardingUnknown(wthr[t]) =>
              wthr[t].pc = "ret" /\ ~wthr[t].result /\ ~wthr[t].raised
    /\ \A t \in SeatThreads :
          SeatUnknown(sthr[t]) => sthr[t].pc = "ret" /\ ~sthr[t].result
    /\ \A t \in BusThreads :
          StopUnknown(bthr[t]) => bthr[t].pc = "ret" /\ ~bthr[t].result
    /\ \A t \in XferThreads :
          XferUnknown(xthr[t]) => xthr[t].pc = "ret" /\ ~xthr[t].result
    /\ \A t \in PresThreads :
          PresUnknown(pthr[t]) =>
              pthr[t].pc = "ret" /\ ~pthr[t].result /\ pthr[t].found = NotFound
    /\ \A t \in FlagThreads :
          FlagUnknown(fthr[t]) => fthr[t].pc = "ret" /\ ~fthr[t].result

\* a step by which some thread enters or leaves such a call
UnknownKeyStep ==
    \/ \E t \in LedgerThreads :
          lthr'[t] /= lthr[t] /\ (LedgerUnknown(lthr[t]) \/ LedgerUnknown(lthr'[t]))
    \/ \E t \in Workers :
          wthr'[t] /= wthr[t] /\ (BoardingUnknown(wthr[t]) \/ BoardingUnknown(wthr'[t]))
    \/ \E t \in SeatThreads :
          sthr'[t] /= sthr[t] /\ (SeatUnknown(sthr[t]) \/ SeatUnknown(sthr'[t]))
    \/ \E t \in BusThreads :
          bthr'[t] /= bthr[t] /\ (StopUnknown(bthr[t]) \/ StopUnknown(bthr'[t]))
    \/ \E t \in XferThreads :
          xthr'[t] /= xthr[t] /\ (XferUnknown(xthr[t]) \/ XferUnknown(xthr'[t]))
    \/ \E t \in PresThreads :
          pthr'[t] /= pthr[t] /\ (PresUnknown(pthr[t]) \/ PresUnknown(pthr'[t]))
    \/ \E t \in FlagThreads :
          fthr'[t] /= fthr[t] /\ (FlagUnknown(fthr[t]) \/ FlagUnknown(fthr'[t]))

\* C20 as stated: an operation called with a bus, stop or passenger
\* identifier that is not in the initialized maps returns False or -1; this
\* includes notify_bus_arrival with an unknown bus and start_boarding /
\* start_alighting with an unknown stop
C20_UnknownIdsFail ==
    /\ UnknownKeyFails
    /\ \A t \in PresThreads :
          (/\ pthr[t].pc /= "idle"
           /\ pthr[t].op = "notify_bus_arrival"
           /\ pthr[t].bus \notin DOMAIN bus_cond_locks)
              => pthr[t].pc = "ret" /\ ~pthr[t].result
    /\ \A t \in FlagThreads :
          (/\ fthr[t].pc /= "idle"
           /\ fthr[t].op \in StartOps
           /\ fthr[t].stop \notin DOMAIN stop_cond_locks)
              => fthr[t].pc = "ret" /\ ~fthr[t].result

\* C20, amended: an operation called with an identifier missing from the
\* map the operation looks it up in returns False or -1 without raising,
\* and the call leaves the maps of the three managers unchanged
C20_UnknownKeyFails ==
    /\ []UnknownKeyFails
    /\ [][UnknownKeyStep => UNCHANGED coordinatorState]_vars

\* a wait_for_bus on an unknown stop is on its early return while a bus is
\* present at a known stop
C20_Witness ==
    \E t \in PresThreads :
        /\ PresUnknown(pthr[t])
        /\ pthr[t].op = "wait_for_bus"
        /\ pthr[t].pc = "ret"
        /\ \E s \in DOMAIN bus_at_stop : bus_at_stop[s] /= {}

====
